---- MODULE Spec2Model ----
\* Verification model of scripts/model_management/update_model_from_dd.py:
\* the data-dictionary-to-schema reconciliation engine (assess/apply runs, the
\* checkpoint and proposal files, the enum resolver, item keys and class rename).
\*
\* Python strings are modelled as sequences of one-character strings, so that
\* strip(), lower(), title(), split() and the regular-expression substitutions
\* are computed character by character, as the code computes them.
EXTENDS Integers, Sequences, FiniteSets, TLC

\* ------------------------------------------------------------------ characters

UpperLetters ==
    <<"A","B","C","D","E","F","G","H","I","J","K","L","M",
      "N","O","P","Q","R","S","T","U","V","W","X","Y","Z">>

LowerLetters ==
    <<"a","b","c","d","e","f","g","h","i","j","k","l","m",
      "n","o","p","q","r","s","t","u","v","w","x","y","z">>

Digits == {"0","1","2","3","4","5","6","7","8","9"}

Whitespace == {" ", "\t", "\n"}

Range(s) == {s[i] : i \in DOMAIN s}

IsUpper(c) == c \in Range(UpperLetters)

IsLower(c) == c \in Range(LowerLetters)

IsCased(c) == IsUpper(c) \/ IsLower(c)

IsAlnum(c) == IsCased(c) \/ c \in Digits

\* str.lower() on one character
LowerChar(c) ==
    IF IsUpper(c)
    THEN LowerLetters[CHOOSE i \in DOMAIN UpperLetters : UpperLetters[i] = c]
    ELSE c

\* str.upper() on one character
UpperChar(c) ==
    IF IsLower(c)
    THEN UpperLetters[CHOOSE i \in DOMAIN LowerLetters : LowerLetters[i] = c]
    ELSE c

\* str.lower()
Lower(s) == [i \in DOMAIN s |-> LowerChar(s[i])]

\* str.title(): a cased character is upper-cased when the character before it is
\* not cased, lower-cased otherwise; other characters are kept
Title(s) ==
    [i \in DOMAIN s |->
        IF ~IsCased(s[i]) THEN s[i]
        ELSE IF i > 1 /\ IsCased(s[i-1]) THEN LowerChar(s[i])
        ELSE UpperChar(s[i])]

\* str.strip(): drop leading and trailing whitespace
Strip(s) ==
    LET idx == {i \in DOMAIN s : s[i] \notin Whitespace}
    IN  IF idx = {} THEN <<>>
        ELSE LET lo == CHOOSE i \in idx : \A j \in idx : i <= j
                 hi == CHOOSE i \in idx : \A j \in idx : i >= j
             IN  SubSeq(s, lo, hi)

\* str.strip("_")
StripUnderscore(s) ==
    LET idx == {i \in DOMAIN s : s[i] # "_"}
    IN  IF idx = {} THEN <<>>
        ELSE LET lo == CHOOSE i \in idx : \A j \in idx : i <= j
                 hi == CHOOSE i \in idx : \A j \in idx : i >= j
             IN  SubSeq(s, lo, hi)

RECURSIVE Concat(_)
\* ''.join(parts)
Concat(parts) ==
    IF parts = <<>> THEN <<>> ELSE Head(parts) \o Concat(Tail(parts))

RECURSIVE SplitOn(_, _)
\* str.split(sep) / re.split on a set of one-character separators: empty pieces are kept
SplitOn(s, seps) ==
    LET idx == {i \in DOMAIN s : s[i] \in seps}
    IN  IF idx = {} THEN <<s>>
        ELSE LET k == CHOOSE i \in idx : \A j \in idx : i <= j
             IN  <<SubSeq(s, 1, k - 1)>> \o SplitOn(SubSeq(s, k + 1, Len(s)), seps)

DigitChars == <<"0","1","2","3","4","5","6","7","8","9">>

\* ord(c) for the characters the model uses
CodePoint(c) ==
    IF c = "\t" THEN 9
    ELSE IF c = " " THEN 32
    ELSE IF c = "(" THEN 40
    ELSE IF c = ")" THEN 41
    ELSE IF c = "," THEN 44
    ELSE IF c = "-" THEN 45
    ELSE IF c \in Digits THEN 47 + (CHOOSE i \in DOMAIN DigitChars : DigitChars[i] = c)
    ELSE IF c = ";" THEN 59
    ELSE IF IsUpper(c) THEN 64 + (CHOOSE i \in DOMAIN UpperLetters : UpperLetters[i] = c)
    ELSE IF c = "_" THEN 95
    ELSE IF IsLower(c) THEN 96 + (CHOOSE i \in DOMAIN LowerLetters : LowerLetters[i] = c)
    ELSE 124

RECURSIVE SeqLess(_, _)
\* Python's string order, by code point; used for sorted()
SeqLess(a, b) ==
    IF a = <<>> THEN b # <<>>
    ELSE IF b = <<>> THEN FALSE
    ELSE IF Head(a) # Head(b) THEN CodePoint(Head(a)) < CodePoint(Head(b))
    ELSE SeqLess(Tail(a), Tail(b))

\* sorted(set of strings)
RECURSIVE SortedSeq(_)
SortedSeq(S) ==
    IF S = {} THEN <<>>
    ELSE LET m == CHOOSE x \in S : \A y \in S \ {x} : SeqLess(x, y)
         IN  <<m>> \o SortedSeq(S \ {m})

\* ------------------------------------------------------------------ name helpers

\* to_camel_case: components[0] + ''.join(x.title() for x in components[1:])
to_camel_case(snake_str) ==
    IF snake_str = <<>> THEN <<>>
    ELSE LET components == SplitOn(snake_str, {"_"})
             rest == [i \in 1..(Len(components) - 1) |-> Title(components[i + 1])]
         IN  components[1] \o Concat(rest)

\* normalize_view_name as a faulty variant would compute it: strip() without lower()
normalize_view_name_NoLower(view_name) == Strip(view_name)

\* normalize_view_name: str(view_name).strip().lower()
normalize_view_name(view_name) == Lower(Strip(view_name))

\* normalize_class_name: re.sub(r"[^a-z0-9]+", "", str(value).lower())
normalize_class_name(value) ==
    SelectSeq(Lower(value), LAMBDA c : IsLower(c) \/ c \in Digits)

EndsWith(s, suffix) ==
    Len(s) >= Len(suffix) /\ SubSeq(s, Len(s) - Len(suffix) + 1, Len(s)) = suffix

\* class_name_stem: drop one trailing "assess" or "prevent" from the normalized name
class_name_stem(value) ==
    LET norm == normalize_class_name(value)
        assess == <<"a","s","s","e","s","s">>
        prevent == <<"p","r","e","v","e","n","t">>
    IN  IF EndsWith(norm, assess) THEN SubSeq(norm, 1, Len(norm) - Len(assess))
        ELSE IF EndsWith(norm, prevent) THEN SubSeq(norm, 1, Len(norm) - Len(prevent))
        ELSE norm

\* compute_item_key: f"{normalize_view_name(view)}|{field}|{normalize_class_name(cls)}"
compute_item_key(view_name, field_name, target_class) ==
    normalize_view_name(view_name) \o <<"|">> \o field_name \o <<"|">>
        \o normalize_class_name(target_class)

\* ------------------------------------------------------------------ difflib

Min(x, y) == IF x <= y THEN x ELSE y

\* length of the longest common run of a starting at i and b starting at j
CommonRun(a, i, b, j) ==
    LET m == Min(Len(a) - i + 1, Len(b) - j + 1)
    IN  CHOOSE k \in 0..m :
            /\ \A t \in 0..(k - 1) : a[i + t] = b[j + t]
            /\ (k = m \/ a[i + k] # b[j + k])

\* SequenceMatcher.find_longest_match without junk: <<i, j, k>>, the longest block,
\* of those the one starting earliest in a, of those the one starting earliest in b
LongestMatch(a, b) ==
    LET cands == {<<i, j, CommonRun(a, i, b, j)>> : i \in DOMAIN a, j \in DOMAIN b}
    IN  IF cands = {} THEN <<1, 1, 0>>
        ELSE CHOOSE c \in cands : \A d \in cands :
                \/ c[3] > d[3]
                \/ c[3] = d[3] /\ c[1] < d[1]
                \/ c[3] = d[3] /\ c[1] = d[1] /\ c[2] <= d[2]

RECURSIVE MatchCount(_, _)
\* sum of the sizes of SequenceMatcher.get_matching_blocks()
MatchCount(a, b) ==
    LET m == LongestMatch(a, b)
    IN  IF m[3] = 0 THEN 0
        ELSE m[3] + MatchCount(SubSeq(a, 1, m[1] - 1), SubSeq(b, 1, m[2] - 1))
                  + MatchCount(SubSeq(a, m[1] + m[3], Len(a)), SubSeq(b, m[2] + m[3], Len(b)))

\* SequenceMatcher(None, a, b).ratio() = 2*M/T (1.0 when T = 0), as <<numerator, denominator>>
Ratio(a, b) ==
    IF Len(a) + Len(b) = 0 THEN <<1, 1>> ELSE <<2 * MatchCount(a, b), Len(a) + Len(b)>>

RatioGreater(r, q) == r[1] * q[2] > q[1] * r[2]

\* ratio >= pct/100
RatioAtLeastPct(r, pct) == 100 * r[1] >= pct * r[2]

\* ------------------------------------------------------------------ values column

\* normalize_value_token: "" for a falsy value, else strip().lower()
normalize_value_token(value) == IF value = <<>> THEN <<>> ELSE Lower(Strip(value))

\* parse_values_column: re.split(r'[;,]'), strip each token, drop the empty ones
parse_values_column(values_str) ==
    IF values_str = <<>> \/ Strip(values_str) = <<>> THEN <<>>
    ELSE LET tokens == SplitOn(values_str, {";", ","})
             kept == SelectSeq(tokens, LAMBDA t : t # <<>> /\ Strip(t) # <<>>)
         IN  [i \in DOMAIN kept |-> Strip(kept[i])]

TokTrue == <<"t","r","u","e">>

TokFalse == <<"f","a","l","s","e">>

NormalizedBooleans ==
    {TokTrue, TokFalse, <<"y","e","s">>, <<"n","o">>, <<"y">>, <<"n">>, <<"1">>, <<"0">>}

\* is_boolean_values with the strict rule asking for the token true alone
is_boolean_values_Subset(values, rule) ==
    LET tokens == {normalize_value_token(values[i]) : i \in DOMAIN values}
    IN  IF rule = "strict" THEN tokens \subseteq {TokTrue} /\ tokens # {}
        ELSE IF rule = "normalize" THEN tokens \subseteq NormalizedBooleans /\ tokens # {}
        ELSE FALSE

\* is_boolean_values
is_boolean_values(values, rule) ==
    LET tokens == {normalize_value_token(values[i]) : i \in DOMAIN values}
    IN  IF rule = "strict" THEN tokens = {TokTrue, TokFalse}
        ELSE IF rule = "normalize" THEN tokens \subseteq NormalizedBooleans /\ tokens # {}
        ELSE FALSE

\* ------------------------------------------------------------------ schema store
\* yaml_files is the ordered dict {path: document}: a sequence of file records
\*   [path, classes, enums, slots]; classes, enums and slots are ordered dicts too,
\*   sequences of records that carry their key in the field name.
\*   class: [name, is_a, mixins, attributes]   attribute/slot: [name, range, any_of]
\*   enum:  [name, permissible_values]  (the member names)
\* A missing is_a is the empty string.

NoPath == <<"", "">>

NotFound == [f |-> 0, c |-> 0, path |-> NoPath, name |-> <<>>]

FirstIndex(S) == IF S = {} THEN 0 ELSE CHOOSE i \in S : \A j \in S : i <= j

RECURSIVE ClassSlotsFrom(_, _)
\* the (file, class) positions in the order the loops over yaml_files.items() and
\* data["classes"].items() visit them
ClassSlotsFrom(yf, f) ==
    IF f > Len(yf) THEN <<>>
    ELSE [c \in 1..Len(yf[f].classes) |-> <<f, c>>] \o ClassSlotsFrom(yf, f + 1)

ClassSlots(yf) == ClassSlotsFrom(yf, 1)

FuzzyThresholdPct == 92

\* a lookup that takes the first key equal up to letter case, whatever else matches
find_class_in_yaml_CaseBlind(yf, class_name, loose) ==
    LET slots == ClassSlots(yf)
        nameAt(p) == yf[p[1]].classes[p[2]].name
        ci == FirstIndex({i \in DOMAIN slots : Lower(nameAt(slots[i])) = Lower(class_name)})
    IN  IF ci # 0
        THEN [f |-> slots[ci][1], c |-> slots[ci][2], path |-> yf[slots[ci][1]].path,
              name |-> nameAt(slots[ci])]
        ELSE NotFound

\* find_class_in_yaml: exact key, then (loose) case-insensitive key, then normalized
\* or stem match, then the best SequenceMatcher ratio >= 0.92
find_class_in_yaml(yf, class_name, loose) ==
    LET slots == ClassSlots(yf)
        nameAt(p) == yf[p[1]].classes[p[2]].name
        hit(p) == [f |-> p[1], c |-> p[2], path |-> yf[p[1]].path, name |-> nameAt(p)]
        exact == FirstIndex({i \in DOMAIN slots : nameAt(slots[i]) = class_name})
        ci == FirstIndex({i \in DOMAIN slots : Lower(nameAt(slots[i])) = Lower(class_name)})
        target_norm == normalize_class_name(class_name)
        target_stem == class_name_stem(class_name)
        normHit(p) ==
            /\ normalize_class_name(nameAt(p)) # <<>>
            /\ \/ target_norm = normalize_class_name(nameAt(p))
               \/ target_stem # <<>> /\ target_stem = class_name_stem(nameAt(p))
        nm == FirstIndex({i \in DOMAIN slots : normHit(slots[i])})
        ratioAt(i) == Ratio(target_norm, normalize_class_name(nameAt(slots[i])))
        fuzzy == {i \in DOMAIN slots :
                    /\ normalize_class_name(nameAt(slots[i])) # <<>>
                    /\ RatioAtLeastPct(ratioAt(i), FuzzyThresholdPct)}
        best == CHOOSE i \in fuzzy : \A j \in fuzzy \ {i} :
                    \/ RatioGreater(ratioAt(i), ratioAt(j))
                    \/ ~RatioGreater(ratioAt(j), ratioAt(i)) /\ i < j
    IN  IF exact # 0 THEN hit(slots[exact])
        ELSE IF ~loose THEN NotFound
        ELSE IF ci # 0 THEN hit(slots[ci])
        ELSE IF nm # 0 THEN hit(slots[nm])
        ELSE IF fuzzy # {} THEN hit(slots[best])
        ELSE NotFound

\* _replace_class_reference_in_attr
replace_class_reference_in_attr(attr_def, old_class_name, new_class_name) ==
    [attr_def EXCEPT
        !.range = IF @ = old_class_name THEN new_class_name ELSE @,
        !.any_of = [i \in DOMAIN @ |-> IF @[i] = old_class_name THEN new_class_name ELSE @[i]]]

\* the reference rewriting of rename_class_and_references for one class definition
RenameInClass(class_def, old_name, new_name) ==
    [class_def EXCEPT
        !.is_a = IF @ = old_name THEN new_name ELSE @,
        !.mixins = [i \in DOMAIN @ |-> IF @[i] = old_name THEN new_name ELSE @[i]],
        !.attributes = [i \in DOMAIN @ |->
                            replace_class_reference_in_attr(@[i], old_name, new_name)]]

\* classes_block.pop(old); classes_block[new] = moved_def  (an existing key keeps its
\* place and takes the new value, a new key goes last)
MoveClassKey(classes, c, new_name) ==
    LET moved == [classes[c] EXCEPT !.name = new_name]
        rest == [i \in 1..(Len(classes) - 1) |-> IF i < c THEN classes[i] ELSE classes[i + 1]]
        at == FirstIndex({i \in DOMAIN rest : rest[i].name = new_name})
    IN  IF at # 0 THEN [rest EXCEPT ![at] = moved] ELSE Append(rest, moved)

\* the conflict test of rename_class_and_references (line 617)
RenameConflict(old_hit, new_hit) ==
    new_hit.f # 0 /\ normalize_class_name(new_hit.name) # normalize_class_name(old_hit.name)

\* the one element of a singleton
Only(S) == CHOOSE x \in S : TRUE

\* the loop of rename_class_and_references over every file (lines 624-661): the
\* references to old_name in classes and slots become new_name
RewriteReferences(yf, old_name, new_name) ==
    [f \in DOMAIN yf |->
        [yf[f] EXCEPT
            !.classes = [i \in DOMAIN @ |-> RenameInClass(@[i], old_name, new_name)],
            !.slots = [i \in DOMAIN @ |->
                          replace_class_reference_in_attr(@[i], old_name, new_name)]]]

\* the result of a rename that went through: moved is the store after the key moved,
\* rewritten the store after the references were rewritten
RenamedResult(old_hit, moved, rewritten) ==
    [renamed |-> TRUE, path |-> old_hit.path,
     touched |-> {old_hit.path}
                   \cup {moved[f].path : f \in {g \in DOMAIN moved : rewritten[g] # moved[g]}},
     message |-> "renamed", yaml_files |-> rewritten]

\* rename_class_and_references once both names are looked up (lines 609-663)
RenameLookedUp(yf, old_class_name, new_class_name, old_hit, new_hit) ==
    LET fail(msg) == [renamed |-> FALSE, path |-> NoPath, touched |-> {},
                      message |-> msg, yaml_files |-> yf]
    IN  IF old_class_name = new_class_name THEN fail("old_and_new_class_names_are_same")
        ELSE IF old_hit.f = 0 THEN fail("source_class_not_found")
        ELSE IF RenameConflict(old_hit, new_hit) THEN fail("target_class_name_already_exists")
        ELSE Only({Only({RenamedResult(old_hit, moved, rewritten) :
                           rewritten \in {RewriteReferences(moved, old_hit.name, new_class_name)}}) :
                      moved \in {[yf EXCEPT ![old_hit.f].classes =
                                     MoveClassKey(@, old_hit.c, new_class_name)]}})

\* rename_class_and_references: [renamed, path, touched, message, yaml_files]
rename_class_and_references(yf, old_class_name, new_class_name) ==
    Only({RenameLookedUp(yf, old_class_name, new_class_name, old_hit, new_hit) :
            old_hit \in {find_class_in_yaml(yf, old_class_name, TRUE)},
            new_hit \in {find_class_in_yaml(yf, new_class_name, FALSE)}})


RECURSIVE IntToStr(_)
\* str(n) for n >= 0
IntToStr(n) ==
    IF n < 10 THEN <<DigitChars[n + 1]>> ELSE IntToStr(n \div 10) \o <<DigitChars[(n % 10) + 1]>>

\* re.sub(r"[^A-Za-z0-9]+", "", value)
KeepAlnum(value) == SelectSeq(value, IsAlnum)

\* re.sub(r"[^A-Za-z0-9]+", "_", value): every run of other characters becomes one "_"
RunsToUnderscore(value) ==
    LET keep == {i \in DOMAIN value : IsAlnum(value[i]) \/ i = 1 \/ IsAlnum(value[i - 1])}
        pick[i \in 0..Len(value)] ==
            IF i = 0 THEN <<>>
            ELSE IF i \notin keep THEN pick[i - 1]
            ELSE Append(pick[i - 1], IF IsAlnum(value[i]) THEN value[i] ELSE "_")
    IN  pick[Len(value)]

\* suggest_enum_name: {Class}{Attribute}Values, then ...Values2, ...Values3 while taken;
\* the caller's existing_names gains the returned name
suggest_enum_name(class_name, attribute_name, existing_names) ==
    LET parts == KeepAlnum(Title(class_name)) \o KeepAlnum(Title(attribute_name))
        base == IF parts = <<>> THEN <<"A","t","t","r","i","b","u","t","e">> ELSE parts
        first == base \o <<"V","a","l","u","e","s">>
        free == {c \in 2..(Cardinality(existing_names) + 2) :
                    (first \o IntToStr(c)) \notin existing_names}
        counter == CHOOSE c \in free : \A d \in free : c <= d
    IN  IF first \notin existing_names THEN first ELSE first \o IntToStr(counter)

\* find_matching_enum: index of the first catalog entry with the same normalized
\* value set, 0 for None
find_matching_enum(values, catalog) ==
    LET target_set == {normalize_value_token(values[i]) : i \in DOMAIN values}
        at == FirstIndex({i \in DOMAIN catalog : catalog[i].value_set = target_set})
    IN  IF target_set = {} THEN 0 ELSE at

\* the member name ensure_enum_definition gives a raw value
EnumMemberName(value) ==
    LET cleaned == Lower(StripUnderscore(RunsToUnderscore(Strip(value))))
    IN  IF cleaned = <<>> THEN <<"v","a","l","u","e">> ELSE cleaned

FileIndex(yf, path) == FirstIndex({i \in DOMAIN yf : yf[i].path = path})

EmptyDocument(path) == [path |-> path, classes |-> <<>>, enums |-> <<>>, slots |-> <<>>]

\* ensure_enum_definition: add the enum to the file's enums unless the name is there
ensure_enum_definition(yf, target_file, enum_name, values) ==
    LET withFile == IF FileIndex(yf, target_file) = 0
                    THEN Append(yf, EmptyDocument(target_file)) ELSE yf
        f == FileIndex(withFile, target_file)
        members == [i \in DOMAIN values |-> EnumMemberName(values[i])]
    IN  IF \E i \in DOMAIN withFile[f].enums : withFile[f].enums[i].name = enum_name
        THEN withFile
        ELSE [withFile EXCEPT ![f].enums =
                Append(@, [name |-> enum_name, permissible_values |-> members])]

RECURSIVE CatalogFrom(_, _)
\* build_enum_catalog: one entry per enum of every file, in file and key order; the
\* value set is the set of normalized member names
CatalogFrom(yf, f) ==
    IF f > Len(yf) THEN <<>>
    ELSE [i \in DOMAIN yf[f].enums |->
            [name |-> yf[f].enums[i].name,
             file |-> yf[f].path,
             value_set |-> {normalize_value_token(Strip(m)) :
                                m \in {x \in Range(yf[f].enums[i].permissible_values) : x # <<>>}}]]
         \o CatalogFrom(yf, f + 1)

build_enum_catalog(yf) == CatalogFrom(yf, 1)

CatalogNames(catalog) == {catalog[i].name : i \in DOMAIN catalog}

\* determine_attribute_range (apply mode):
\*   [range, enum_action, enum_name, yaml_files, enum_catalog, existing_enum_names]
determine_attribute_range(a, field, base_range, target_class_name, target_file, yf, catalog, names) ==
    LET values == parse_values_column(field.values)
        keep(r, act) == [range |-> r, enum_action |-> act, enum_name |-> <<>>,
                         yaml_files |-> yf, enum_catalog |-> catalog,
                         existing_enum_names |-> names]
        value_set == {normalize_value_token(values[i]) : i \in DOMAIN values}
        m == IF a.enum_strategy = "reuse-first" THEN find_matching_enum(values, catalog) ELSE 0
        enum_name == suggest_enum_name(target_class_name, to_camel_case(field.field), names)
    IN  IF values = <<>> THEN keep(base_range, "none")
        ELSE IF is_boolean_values(values, a.boolean_rule) THEN keep(<<"b","o","o","l","e","a","n">>, "boolean")
        ELSE IF a.enum_strategy = "keep-string" THEN keep(base_range, "none")
        ELSE IF m # 0
        THEN [keep(catalog[m].name, "reuse") EXCEPT !.enum_name = catalog[m].name]
        ELSE [range |-> enum_name, enum_action |-> "create", enum_name |-> enum_name,
              yaml_files |-> ensure_enum_definition(yf, target_file, enum_name, values),
              enum_catalog |-> Append(catalog, [name |-> enum_name, file |-> target_file,
                                                value_set |-> value_set]),
              existing_enum_names |-> names \cup {enum_name}]

\* the range resolution of run_assess_mode (lines 977-1005):
\*   [range, enum_action, enum_name, enum_catalog, existing_enum_names]
assess_attribute_range(a, field, attr_name, target_class_name, target_file, catalog, names) ==
    LET field_values == parse_values_column(field.values)
        keep(r) == [range |-> r, enum_action |-> "none", enum_name |-> <<>>,
                    enum_catalog |-> catalog, existing_enum_names |-> names]
        value_set == {normalize_value_token(field_values[i]) : i \in DOMAIN field_values}
        m == IF a.enum_strategy = "reuse-first"
             THEN find_matching_enum(field_values, catalog) ELSE 0
        enum_name == suggest_enum_name(target_class_name, attr_name, names)
    IN  IF is_boolean_values(field_values, a.boolean_rule) THEN keep(<<"b","o","o","l","e","a","n">>)
        ELSE IF field_values # <<>> /\ a.enum_strategy # "keep-string"
        THEN IF m # 0
             THEN [keep(catalog[m].name) EXCEPT !.enum_action = "reuse",
                                               !.enum_name = catalog[m].name]
             ELSE [range |-> enum_name, enum_action |-> "create", enum_name |-> enum_name,
                   enum_catalog |-> Append(catalog, [name |-> enum_name, file |-> target_file,
                                                     value_set |-> value_set]),
                   existing_enum_names |-> names \cup {enum_name}]
        ELSE keep(<<"s","t","r","i","n","g">>)


\* ------------------------------------------------------------------ run inputs
\* One dictionary, mapping and schema store, the same for every run of a behaviour.

AssessmentsDir == "clinical/assessments"

FallbackFile == <<AssessmentsDir, "other_generated_assessments.yaml">>

FileA == <<AssessmentsDir, "a.yaml">>

StringRange == <<"s","t","r","i","n","g">>

\* load_yaml_files(modules_dir): class Zed with attribute age, enum YesNo
LoadedStore ==
    << [path |-> FileA,
        classes |-> << [name |-> <<"Z","e","d">>, is_a |-> <<>>, mixins |-> <<>>,
                        attributes |-> << [name |-> <<"a","g","e">>, range |-> StringRange,
                                           any_of |-> <<>>] >>] >>,
        enums |-> << [name |-> <<"Y","e","s","N","o">>, permissible_values |-> << <<"y","e","s">>, <<"n","o">> >>] >>,
        slots |-> <<>>] >>

\* all_dd_data in insertion order (the order of the dictionary files' rows):
\* view name and its fields [field, values]
all_dd_data ==
    << [view |-> <<"v","_","A","L","L","A","L","S","_","A","S","_","Z">>,
        fields |-> << [field |-> <<"a","g","e">>, values |-> <<"p",";","q">>],
                      [field |-> <<"_">>, values |-> <<>>],
                      [field |-> <<"g","e","n","d","e","r">>, values |-> <<"F",","," ","M">>] >>],
       [view |-> <<"v","_","A","L","L","A","L","S","_","A","S","_","A">>,
        fields |-> << [field |-> <<"s","e","x">>, values |-> <<"m",";","f">>] >>],
       [view |-> <<"V","_","A","L","L","A","L","S","_","A","S","_","U">>,
        fields |-> << [field |-> <<"x">>, values |-> <<>>] >>],
       [view |-> <<"v","_","A","L","L","A","L","S","_","A","S","_","B">>,
        fields |-> << [field |-> <<"s","e","x">>, values |-> <<"u",";","w">>],
                      [field |-> <<"o","k">>, values |-> <<"t","r","u","e",";","f","a","l","s","e">>] >>] >>

\* view_to_class: normalized view name -> class name
view_to_class ==
    { <<<<"v","_","a","l","l","a","l","s","_","a","s","_","a">>, <<"X","c","l","s">>>>,
      <<<<"v","_","a","l","l","a","l","s","_","a","s","_","b">>, <<"X","c","l","s">>>>,
      <<<<"v","_","a","l","l","a","l","s","_","a","s","_","z">>, <<"Z","e","d">>>> }

MappedViews == {m[1] : m \in view_to_class}

MappedClass(normalized_view) == (CHOOSE m \in view_to_class : m[1] = normalized_view)[2]

DictIndex(view_name) == FirstIndex({i \in DOMAIN all_dd_data : all_dd_data[i].view = view_name})

\* sorted(all_dd_data.keys())
SortedViews == SortedSeq({all_dd_data[i].view : i \in DOMAIN all_dd_data})

FilePlacementPct == 62

\* choose_grouped_assessment_file: the assessments file whose classes are most similar
\* by stem (an earlier file wins a tie), the fallback file when the best is under 0.62
choose_grouped_assessment_file(yf, class_name) ==
    LET target_norm == class_name_stem(class_name)
        cand == {f \in DOMAIN yf : yf[f].classes # <<>> /\ yf[f].path[1] = AssessmentsDir}
        scores(f) == {Ratio(target_norm, class_name_stem(yf[f].classes[c].name)) :
                        c \in DOMAIN yf[f].classes}
        file_best(f) == LET top == {r \in scores(f) : \A q \in scores(f) : ~RatioGreater(q, r)}
                        IN  IF \A r \in scores(f) : r[1] = 0 THEN <<0, 1>>
                            ELSE CHOOSE r \in top : TRUE
        best == CHOOSE f \in cand : \A g \in cand \ {f} :
                    \/ RatioGreater(file_best(f), file_best(g))
                    \/ ~RatioGreater(file_best(g), file_best(f)) /\ f < g
    IN  IF cand # {} /\ RatioAtLeastPct(file_best(best), FilePlacementPct)
        THEN yf[best].path ELSE FallbackFile


\* ------------------------------------------------------------------ engine state

VARIABLES
    yaml_files,          \* the in-memory schema store
    ckptFile,            \* the checkpoint JSON file: [state, modes]
    proposalFile,        \* the proposal CSV: [exists, rows]
    pc,                  \* where the running process is; "idle" when none runs
    args,                \* the parsed command line of the running or the rejected process
    checkpoint_root,     \* checkpoint_root["modes"] as loaded by main
    completed_keys,
    existing_keys,
    processed_count,
    rows_written,
    pause_counter,
    stop_requested,
    enum_catalog,
    existing_enum_names,
    vi,                  \* position of the view loop in sorted(all_dd_data.keys())
    fi,                  \* position of the field loop in the view's fields
    view_ctx,            \* the per-view locals of run_assess_mode
    exit_code,           \* how the last process ended
    runs,                \* processes started so far
    calls                \* applications of a function under test (function-level specifications)

vars == <<yaml_files, ckptFile, proposalFile, pc, args, checkpoint_root, completed_keys,
          existing_keys, processed_count, rows_written, pause_counter, stop_requested,
          enum_catalog, existing_enum_names, vi, fi, view_ctx, exit_code, runs, calls>>

MaxRuns == 2

MaxPause == 1

Modes == {"assess", "apply"}

RunEnumStrategies == {"reuse-first", "keep-string"}

RunBooleanRules == {"strict"}

ArgsSpace ==
    [mode : Modes, resume : BOOLEAN, reset_checkpoint : BOOLEAN, pause_after : 0..MaxPause,
     enum_strategy : RunEnumStrategies, boolean_rule : RunBooleanRules, dry_run : BOOLEAN]

NoArgs == [mode |-> "none", resume |-> FALSE, reset_checkpoint |-> FALSE, pause_after |-> 0,
           enum_strategy |-> "none", boolean_rule |-> "none", dry_run |-> FALSE]

NoMode == [present |-> FALSE, completed_keys |-> {}, processed_count |-> 0,
           args_signature |-> <<>>]

EmptyRoot == [m \in Modes |-> NoMode]

NoCheckpoint == [state |-> "absent", modes |-> EmptyRoot]

NoProposal == [exists |-> FALSE, rows |-> <<>>]

NoViewCtx == [mapped_class |-> <<>>, class_exists |-> FALSE, target_class_name |-> <<>>,
              target_file |-> NoPath, attr_names |-> {}]

\* the values the process-local variables have when no process runs
MemoryCleared ==
    /\ checkpoint_root' = EmptyRoot
    /\ completed_keys' = {}
    /\ existing_keys' = {}
    /\ processed_count' = 0
    /\ rows_written' = 0
    /\ pause_counter' = 0
    /\ stop_requested' = FALSE
    /\ enum_catalog' = <<>>
    /\ existing_enum_names' = {}
    /\ vi' = 0
    /\ fi' = 0
    /\ view_ctx' = NoViewCtx

\* no file written yet and no process running
NothingRun ==
    /\ ckptFile = NoCheckpoint
    /\ proposalFile = NoProposal
    /\ pc = "idle"
    /\ args = NoArgs
    /\ checkpoint_root = EmptyRoot
    /\ completed_keys = {}
    /\ existing_keys = {}
    /\ processed_count = 0
    /\ rows_written = 0
    /\ pause_counter = 0
    /\ stop_requested = FALSE
    /\ vi = 0
    /\ fi = 0
    /\ view_ctx = NoViewCtx
    /\ exit_code = "none"
    /\ runs = 0

Init ==
    /\ yaml_files = LoadedStore
    /\ NothingRun
    /\ enum_catalog = <<>>
    /\ existing_enum_names = {}
    /\ calls = <<>>

\* compute_args_signature: the hash of the options that matter, here the options
\* themselves (ai_provider, use_gemini_review and proposal_path do not vary)
compute_args_signature(a) == <<a.mode, a.enum_strategy, a.boolean_rule>>

\* load_checkpoint(path) or {} : a missing or unparsable file loads as empty
load_checkpoint(file) == IF file.state = "ok" THEN file.modes ELSE EmptyRoot

\* the signature test of main (line 1529) with the comparison dropped
SignatureDrift_Never(mode_checkpoint, signature) == FALSE

\* the signature test of main (line 1529)
SignatureDrift(mode_checkpoint, signature) ==
    mode_checkpoint.args_signature # <<>> /\ mode_checkpoint.args_signature # signature

\* main up to the signal handler (lines 1520-1532): --reset-checkpoint removes the
\* checkpoint file, the checkpoint is loaded, a drifted signature is a usage error
StartMain ==
    /\ pc = "idle"
    /\ runs < MaxRuns
    /\ \E a \in ArgsSpace :
        LET removed == a.reset_checkpoint /\ ckptFile.state # "absent"
            file == IF removed THEN NoCheckpoint ELSE ckptFile
            loaded == load_checkpoint(file)
            root == IF a.reset_checkpoint THEN [loaded EXCEPT ![a.mode] = NoMode] ELSE loaded
        IN  /\ ckptFile' = file
            /\ runs' = runs + 1
            /\ IF SignatureDrift(root[a.mode], compute_args_signature(a))
               THEN /\ pc' = "idle"
                    /\ exit_code' = "usage"
                    /\ args' = a
                    /\ MemoryCleared
               ELSE /\ pc' = "loaded"
                    /\ exit_code' = "running"
                    /\ args' = a
                    /\ checkpoint_root' = root
                    /\ UNCHANGED <<completed_keys, existing_keys, processed_count,
                                   rows_written, pause_counter, stop_requested, enum_catalog,
                                   existing_enum_names, vi, fi, view_ctx>>
    /\ UNCHANGED <<yaml_files, proposalFile, calls>>

\* main in apply mode (lines 1576-1580, 1956): stop_requested is assigned in main
\* without a global declaration, so it is a local of main and reading it before the
\* assignment raises UnboundLocalError, at the first view or, with no view, after the loop
ApplyMain ==
    /\ pc = "loaded"
    /\ args.mode = "apply"
    /\ pc' = "idle"
    /\ exit_code' = "error"
    /\ args' = NoArgs
    /\ MemoryCleared
    /\ UNCHANGED <<yaml_files, ckptFile, proposalFile, runs, calls>>

\* a loader that does not read the proposal CSV
load_existing_proposal_keys_Unread(file) == {}

\* load_existing_proposal_keys
load_existing_proposal_keys(file) ==
    IF file.exists THEN {file.rows[i].item_key : i \in DOMAIN file.rows} \ {<<>>} ELSE {}

\* open_proposal_writer: append when resuming onto an existing file, else write anew
open_proposal_writer(file, resume) ==
    IF resume /\ file.exists THEN file ELSE [exists |-> TRUE, rows |-> <<>>]

\* run_assess_mode before its loop (lines 916-936)
RunAssessMode ==
    /\ pc = "loaded"
    /\ args.mode = "assess"
    /\ stop_requested' = FALSE
    /\ existing_keys' = load_existing_proposal_keys(proposalFile)
    /\ completed_keys' = checkpoint_root[args.mode].completed_keys
                            \cup load_existing_proposal_keys(proposalFile)
    /\ processed_count' = checkpoint_root[args.mode].processed_count
    /\ proposalFile' = open_proposal_writer(proposalFile, args.resume /\ proposalFile.exists)
    /\ enum_catalog' = build_enum_catalog(yaml_files)
    /\ existing_enum_names' = CatalogNames(build_enum_catalog(yaml_files))
    /\ rows_written' = 0
    /\ pause_counter' = 0
    /\ vi' = 1
    /\ fi' = 0
    /\ pc' = "view"
    /\ UNCHANGED <<yaml_files, ckptFile, args, checkpoint_root, view_ctx, exit_code, runs, calls>>

\* the per-view locals of run_assess_mode (lines 945-961)
ViewContext(yf, view_name) ==
    LET mapped_class == MappedClass(normalize_view_name(view_name))
        hit == find_class_in_yaml(yf, mapped_class, TRUE)
        class_exists == hit.f # 0
    IN  [mapped_class |-> mapped_class,
         class_exists |-> class_exists,
         target_class_name |-> IF class_exists THEN hit.name ELSE mapped_class,
         target_file |-> IF class_exists THEN hit.path
                         ELSE choose_grouped_assessment_file(yf, mapped_class),
         attr_names |-> IF class_exists
                        THEN {yf[hit.f].classes[hit.c].attributes[i].name :
                                 i \in DOMAIN yf[hit.f].classes[hit.c].attributes}
                        ELSE {}]

\* the skip test of the field loop with the test dropped
IsCompleted_Never(item_key, completed) == FALSE

\* the skip test of the field loop (line 974)
IsCompleted(item_key, completed) == item_key \in completed

\* persist_checkpoint_state writing the checkpoint as it was loaded
PersistedCheckpoint_Stale(root, mode, completed, count, signature) ==
    [state |-> "ok", modes |-> root]

\* persist_checkpoint_state (lines 924-929): the file save_checkpoint writes
PersistedCheckpoint(root, mode, completed, count, signature) ==
    [state |-> "ok",
     modes |-> [root EXCEPT ![mode] = [present |-> TRUE, completed_keys |-> completed,
                                       processed_count |-> count,
                                       args_signature |-> signature]]]

CurrentView == SortedViews[vi]

CurrentFields == all_dd_data[DictIndex(CurrentView)].fields

\* the head of the view loop (lines 939-964)
AssessView ==
    /\ pc = "view"
    /\ IF stop_requested \/ vi > Len(SortedViews)
       THEN /\ pc' = "finish"
            /\ UNCHANGED <<vi, fi, view_ctx>>
       ELSE IF normalize_view_name(CurrentView) \notin MappedViews
       THEN /\ vi' = vi + 1
            /\ UNCHANGED <<pc, fi, view_ctx>>
       ELSE /\ view_ctx' = ViewContext(yaml_files, CurrentView)
            /\ fi' = 1
            /\ pc' = "field"
            /\ UNCHANGED vi
    /\ UNCHANGED <<yaml_files, ckptFile, proposalFile, args, checkpoint_root, completed_keys,
                   existing_keys, processed_count, rows_written, pause_counter,
                   stop_requested, enum_catalog, existing_enum_names, exit_code, runs, calls>>

\* the store after the assess loop has resolved a field, where apply would have called
\* ensure_enum_definition (lines 560-572)
StoreAfterAssess_Ensure(yf, target_file, r, values) ==
    IF r.enum_action = "create"
    THEN ensure_enum_definition(yf, target_file, r.enum_name, values) ELSE yf

\* the store after the assess loop has resolved a field (lines 977-1046): the enum is
\* proposed in the row and entered in enum_catalog; yaml_files is only read
StoreAfterAssess(yf, target_file, r, values) == yf

\* one pass of the field loop up to the flushed row (lines 966-1046)
AssessField ==
    /\ pc = "field"
    /\ IF stop_requested
       THEN /\ pc' = "finish"
            /\ UNCHANGED <<vi, fi, completed_keys, enum_catalog, existing_enum_names,
                           proposalFile, yaml_files>>
       ELSE IF fi > Len(CurrentFields)
       THEN /\ vi' = vi + 1
            /\ pc' = "view"
            /\ UNCHANGED <<fi, completed_keys, enum_catalog, existing_enum_names, proposalFile,
                           yaml_files>>
       ELSE LET field == CurrentFields[fi]
                attr_name == to_camel_case(field.field)
                item_key == compute_item_key(CurrentView, attr_name, view_ctx.target_class_name)
                r == assess_attribute_range(args, field, attr_name, view_ctx.target_class_name,
                                            view_ctx.target_file, enum_catalog,
                                            existing_enum_names)
                row == [item_key |-> item_key,
                        view_name |-> CurrentView,
                        mapped_class |-> view_ctx.mapped_class,
                        target_file |-> view_ctx.target_file,
                        attribute_name |-> attr_name,
                        attribute_range |-> r.range,
                        enum_action |-> r.enum_action,
                        enum_name |-> r.enum_name,
                        enum_values |-> parse_values_column(field.values),
                        status |-> IF view_ctx.class_exists THEN "new_attribute"
                                   ELSE "new_class"]
            IN  IF attr_name = <<>> \/ IsCompleted(item_key, completed_keys)
                THEN /\ fi' = fi + 1
                     /\ UNCHANGED <<pc, vi, completed_keys, enum_catalog, existing_enum_names,
                                    proposalFile, yaml_files>>
                ELSE IF view_ctx.class_exists /\ attr_name \in view_ctx.attr_names
                THEN /\ completed_keys' = completed_keys \cup {item_key}
                     /\ enum_catalog' = r.enum_catalog
                     /\ existing_enum_names' = r.existing_enum_names
                     /\ yaml_files' = StoreAfterAssess(yaml_files, view_ctx.target_file, r,
                                                       parse_values_column(field.values))
                     /\ fi' = fi + 1
                     /\ UNCHANGED <<pc, vi, proposalFile>>
                ELSE /\ proposalFile' = [proposalFile EXCEPT !.rows = Append(@, row)]
                     /\ enum_catalog' = r.enum_catalog
                     /\ existing_enum_names' = r.existing_enum_names
                     /\ yaml_files' = StoreAfterAssess(yaml_files, view_ctx.target_file, r,
                                                       parse_values_column(field.values))
                     /\ pc' = "rowWritten"
                     /\ UNCHANGED <<vi, fi, completed_keys>>
    /\ UNCHANGED <<ckptFile, args, checkpoint_root, existing_keys, processed_count,
                   rows_written, pause_counter, stop_requested, view_ctx, exit_code, runs, calls>>

\* the rest of the pass after the row is flushed (lines 1047-1063)
AssessPersist ==
    /\ pc = "rowWritten"
    /\ LET field == CurrentFields[fi]
           item_key == compute_item_key(CurrentView, to_camel_case(field.field),
                                        view_ctx.target_class_name)
           saved == PersistedCheckpoint(checkpoint_root, args.mode,
                                        completed_keys \cup {item_key}, processed_count + 1,
                                        compute_args_signature(args))
       IN  /\ rows_written' = rows_written + 1
           /\ pause_counter' = pause_counter + 1
           /\ processed_count' = processed_count + 1
           /\ existing_keys' = existing_keys \cup {item_key}
           /\ completed_keys' = completed_keys \cup {item_key}
           /\ ckptFile' = saved
           /\ checkpoint_root' = saved.modes
           /\ IF args.pause_after # 0 /\ pause_counter + 1 >= args.pause_after
              THEN /\ stop_requested' = TRUE
                   /\ pc' = "finish"
                   /\ UNCHANGED fi
              ELSE /\ fi' = fi + 1
                   /\ pc' = "field"
                   /\ UNCHANGED stop_requested
    /\ UNCHANGED <<yaml_files, proposalFile, args, enum_catalog, existing_enum_names, vi,
                   view_ctx, exit_code, runs, calls>>

\* the end of run_assess_mode (lines 1066-1074): the handle is closed, the checkpoint saved
AssessFinish ==
    /\ pc = "finish"
    /\ ckptFile' = PersistedCheckpoint(checkpoint_root, args.mode, completed_keys,
                                       processed_count, compute_args_signature(args))
    /\ pc' = "idle"
    /\ exit_code' = IF stop_requested THEN "paused" ELSE "ok"
    /\ args' = NoArgs
    /\ MemoryCleared
    /\ UNCHANGED <<yaml_files, proposalFile, runs, calls>>

\* _signal_handler: SIGINT after the handler is installed (line 1532)
Interrupt ==
    /\ pc \in {"loaded", "view", "field", "rowWritten"}
    /\ ~stop_requested
    /\ stop_requested' = TRUE
    /\ UNCHANGED <<yaml_files, ckptFile, proposalFile, pc, args, checkpoint_root,
                   completed_keys, existing_keys, processed_count, rows_written, pause_counter,
                   enum_catalog, existing_enum_names, vi, fi, view_ctx, exit_code, runs, calls>>

\* the process is killed between two steps; the files stay as they are
Crash ==
    /\ pc # "idle"
    /\ pc' = "idle"
    /\ exit_code' = "killed"
    /\ args' = NoArgs
    /\ MemoryCleared
    /\ UNCHANGED <<yaml_files, ckptFile, proposalFile, runs, calls>>

\* the process is killed inside save_checkpoint (lines 407-410): open(path, "w") has
\* truncated the file and json.dump has not finished, so the file does not parse
CrashInSave ==
    /\ pc \in {"rowWritten", "finish"}
    /\ ckptFile' = [state |-> "torn", modes |-> EmptyRoot]
    /\ pc' = "idle"
    /\ exit_code' = "killed"
    /\ args' = NoArgs
    /\ MemoryCleared
    /\ UNCHANGED <<yaml_files, proposalFile, runs, calls>>

Next ==
    \/ StartMain
    \/ ApplyMain
    \/ RunAssessMode
    \/ AssessView
    \/ AssessField
    \/ AssessPersist
    \/ AssessFinish
    \/ Interrupt
    \/ Crash
    \/ CrashInSave

Spec == Init /\ [][Next]_vars

\* ------------------------------------------------------------------ claims on the engine

\* the items of the run inputs: every field with a name, of every mapped view
Items ==
    {<<v, f>> \in (DOMAIN all_dd_data) \X (1..3) :
        /\ f \in DOMAIN all_dd_data[v].fields
        /\ normalize_view_name(all_dd_data[v].view) \in MappedViews
        /\ to_camel_case(all_dd_data[v].fields[f].field) # <<>>}

\* the key of an item, its class resolved against the store as loaded (no run of the
\* engine changes the store)
ItemKey(it) ==
    compute_item_key(all_dd_data[it[1]].view, to_camel_case(all_dd_data[it[1]].fields[it[2]].field),
                     ViewContext(LoadedStore, all_dd_data[it[1]].view).target_class_name)

AllItemKeys == {ItemKey(it) : it \in Items}

\* the keys of the items whose attribute the target class already has: they need no output
AlreadyPresentKeys ==
    {ItemKey(it) : it \in {x \in Items :
        to_camel_case(all_dd_data[x[1]].fields[x[2]].field)
            \in ViewContext(LoadedStore, all_dd_data[x[1]].view).attr_names}}

RowKeys == {proposalFile.rows[i].item_key : i \in DOMAIN proposalFile.rows}

RowValueSet(row) == {normalize_value_token(row.enum_values[i]) : i \in DOMAIN row.enum_values}

\* a --resume run, without --reset-checkpoint, over a checkpoint that holds every item
ResumeOfCompleteRun(a, file) ==
    /\ a.mode \in Modes
    /\ a.resume
    /\ ~a.reset_checkpoint
    /\ file.state = "ok"
    /\ AllItemKeys \subseteq file.modes[a.mode].completed_keys

Killed == pc' = "idle" /\ exit_code' = "killed"

\* C1: resume idempotence. Once the checkpoint of the run's mode holds every item, no
\* step of a --resume run (from the start of main to its exit, the process not being
\* killed) appends a proposal row, changes the schema store, or changes the completed
\* keys or the processed count of the checkpoint file.
C1_ResumeWritesNothing ==
    [][(/\ ~Killed
        /\ \/ pc # "idle" /\ ResumeOfCompleteRun(args, ckptFile)
           \/ pc = "idle" /\ pc' = "loaded" /\ ResumeOfCompleteRun(args', ckptFile))
       => /\ proposalFile' = proposalFile
          /\ yaml_files' = yaml_files
          /\ ckptFile'.state = "ok"
          /\ \A m \in Modes :
                /\ ckptFile'.modes[m].completed_keys = ckptFile.modes[m].completed_keys
                /\ ckptFile'.modes[m].processed_count = ckptFile.modes[m].processed_count]_vars

\* a resumed run over a complete checkpoint has gone through every view and is about to exit
C1_Witness ==
    /\ pc = "finish"
    /\ runs = 2
    /\ ~stop_requested
    /\ ResumeOfCompleteRun(args, ckptFile)
    /\ rows_written = 0
    /\ Len(proposalFile.rows) = 4

\* C2: at-least-once durability. In every reachable state (so at every point where the
\* process can be killed) each item key of the completed set in the checkpoint file,
\* other than the keys of items that need no output, has its row in the proposal CSV.
C2_CompletedOnDiskHaveOutput ==
    ckptFile.state = "ok" =>
        (ckptFile.modes["assess"].completed_keys \ AlreadyPresentKeys) \subseteq RowKeys

\* C3: the checkpoint is saved after every item. Every step of the loops that adds a key
\* to the in-memory completed set and goes on to the next item leaves the completed set
\* of the checkpoint file equal to the in-memory one.
C3_SavedAtEveryItemBoundary ==
    [][(/\ pc \in {"field", "rowWritten"}
        /\ pc' \in {"view", "field", "finish"}
        /\ completed_keys' # completed_keys)
       => /\ ckptFile'.state = "ok"
          /\ ckptFile'.modes[args.mode].completed_keys = completed_keys']_vars

\* the checkpoint file holds, for the mode of command line a, another signature than a's
HoldsOtherSignature(file, a) ==
    /\ file.state = "ok"
    /\ file.modes[a.mode].args_signature # <<>>
    /\ file.modes[a.mode].args_signature # <<a.mode, a.enum_strategy, a.boolean_rule>>

\* C4: configuration drift is fatal and free of side effects. A process started without
\* --reset-checkpoint over a checkpoint that holds another signature for its mode exits
\* with the usage error at once, the checkpoint file, the proposal CSV and the schema
\* store being as they were; a process started with --reset-checkpoint never exits with
\* the usage error.
C4_DriftAbortsBeforeAnyWrite ==
    [][(pc = "idle" /\ runs' = runs + 1)
       => IF ~args'.reset_checkpoint /\ HoldsOtherSignature(ckptFile, args')
          THEN /\ exit_code' = "usage"
               /\ pc' = "idle"
               /\ ckptFile' = ckptFile
               /\ proposalFile' = proposalFile
               /\ yaml_files' = yaml_files
          ELSE args'.reset_checkpoint => exit_code' # "usage"]_vars

\* a run was rejected for drift after an earlier run had written rows and the checkpoint
C4_Witness ==
    /\ pc = "idle"
    /\ exit_code = "usage"
    /\ ~args.reset_checkpoint
    /\ HoldsOtherSignature(ckptFile, args)
    /\ proposalFile.rows # <<>>

\* C5: reuse under reuse-first. Of two proposal rows that resolved to an enum and have the
\* same normalized value set, the later one reuses the enum the earlier one names.
C5_SecondFieldReuses ==
    \A i, j \in DOMAIN proposalFile.rows :
        (/\ i < j
         /\ proposalFile.rows[i].enum_action \in {"create", "reuse"}
         /\ proposalFile.rows[j].enum_action \in {"create", "reuse"}
         /\ RowValueSet(proposalFile.rows[i]) = RowValueSet(proposalFile.rows[j]))
        => /\ proposalFile.rows[j].enum_action = "reuse"
           /\ proposalFile.rows[j].enum_name = proposalFile.rows[i].enum_name

\* C6: enum names are unique. No two proposal rows that propose the creation of an enum
\* give the same name to different value sets.
C6_CreatedEnumNamesUnique ==
    \A i, j \in DOMAIN proposalFile.rows :
        (/\ proposalFile.rows[i].enum_action = "create"
         /\ proposalFile.rows[j].enum_action = "create"
         /\ proposalFile.rows[i].enum_name = proposalFile.rows[j].enum_name)
        => RowValueSet(proposalFile.rows[i]) = RowValueSet(proposalFile.rows[j])

\* ------------------------------------------------------------------ compute_item_key

MaxKeyCalls == 2

KeyViews ==
    { <<"V","_","a","l","l","a","l","s","_","a","s","_","x">>, <<"v","_","A","L","L","A","L","S","_","A","S","_","X">>, <<" ","v","_","a","l","l","a","l","s","_","a","s","_","x"," ">>, <<"v","_","A","l","l","a","l","s","_","A","s","_","X","\t">>,
      <<"v","_","a","l","l","a","l","s","_","a","s","_","y">>, <<"v","_","a","l","l","a","l","s","_","a","s"," ","x">> }

KeyFields == { <<"a","g","e">>, <<"A","g","e">> }

KeyClasses == { <<"D","e","m","o","g">>, <<" ","d","e","m","o","g">> }

\* a caller computes the key of one (view, field, class)
KeyCall ==
    /\ Len(calls) < MaxKeyCalls
    /\ \E v \in KeyViews, f \in KeyFields, c \in KeyClasses :
          calls' = Append(calls, [view_name |-> v, field_name |-> f, target_class |-> c,
                                  key |-> compute_item_key(v, f, c)])
    /\ UNCHANGED <<yaml_files, ckptFile, proposalFile, pc, args, checkpoint_root,
                   completed_keys, existing_keys, processed_count, rows_written, pause_counter,
                   stop_requested, enum_catalog, existing_enum_names, vi, fi, view_ctx,
                   exit_code, runs>>

SpecKey == Init /\ [][KeyCall]_vars

\* how many characters of s can go as leading, as trailing whitespace
LeadPads(s) == {n \in 0..Len(s) : \A i \in 1..n : s[i] \in Whitespace}

TrailPads(s, lead) ==
    {n \in 0..(Len(s) - lead) : \A i \in (Len(s) - n + 1)..Len(s) : s[i] \in Whitespace}

\* a and b are the same text but for letter case and for whitespace at either end
DifferOnlyInCaseOrPadding(a, b) ==
    \E la \in LeadPads(a), lb \in LeadPads(b) :
    \E ra \in TrailPads(a, la), rb \in TrailPads(b, lb) :
        /\ Len(a) - la - ra = Len(b) - lb - rb
        /\ \A i \in 1..(Len(a) - la - ra) : UpperChar(a[la + i]) = UpperChar(b[lb + i])

\* C8: compute_item_key is stable and normalized. Two calls with the same (view, field,
\* class) give the same key, and two calls whose view names differ only in letter case
\* or surrounding whitespace give equal keys for the same field and class.
C8_ItemKeyStableAndNormalized ==
    \A i, j \in DOMAIN calls :
        (/\ calls[i].field_name = calls[j].field_name
         /\ calls[i].target_class = calls[j].target_class
         /\ DifferOnlyInCaseOrPadding(calls[i].view_name, calls[j].view_name))
        => calls[i].key = calls[j].key

\* the keys of 'V_allals_as_x' and 'v_ALLALS_AS_X' have been computed for one field and class
C8_Witness ==
    \E i, j \in DOMAIN calls :
        /\ calls[i].view_name = <<"V","_","a","l","l","a","l","s","_","a","s","_","x">>
        /\ calls[j].view_name = <<"v","_","A","L","L","A","L","S","_","A","S","_","X">>
        /\ calls[i].field_name = calls[j].field_name
        /\ calls[i].target_class = calls[j].target_class
        /\ calls[i].key = calls[j].key

\* ------------------------------------------------------------------ range resolution

MaxResolves == 2

ResolveValues ==
    { <<"t","r","u","e",";","f","a","l","s","e">>, <<"F","a","l","s","e",","," ","T","R","U","E"," ",",","t","r","u","e">>,
      <<"t","r","u","e",";","f","a","l","s","e",";","y","e","s">>, <<"m",";","f">> }

ResolveArgs == [enum_strategy : {"reuse-first", "always-new", "keep-string"},
                boolean_rule : {"strict", "normalize"}]

ResolveClass == <<"X","c","l","s">>

ResolveCall(mode, a, values, r, changed) ==
    [mode |-> mode, enum_strategy |-> a.enum_strategy, boolean_rule |-> a.boolean_rule,
     values |-> values, range |-> r.range, enum_action |-> r.enum_action,
     enum_name |-> r.enum_name, enum_added |-> changed]

InitResolve ==
    /\ yaml_files = LoadedStore
    /\ NothingRun
    /\ enum_catalog = build_enum_catalog(LoadedStore)
    /\ existing_enum_names = CatalogNames(build_enum_catalog(LoadedStore))
    /\ calls = <<>>

\* the field loop of run_assess_mode resolves the range of one field (lines 977-1005)
ResolveAssess ==
    /\ Len(calls) < MaxResolves
    /\ \E a \in ResolveArgs, values \in ResolveValues :
        LET field == [field |-> <<"f","l","a","g">>, values |-> values]
            r == assess_attribute_range(a, field, to_camel_case(field.field), ResolveClass,
                                        FallbackFile, enum_catalog, existing_enum_names)
        IN  /\ enum_catalog' = r.enum_catalog
            /\ existing_enum_names' = r.existing_enum_names
            /\ calls' = Append(calls, ResolveCall("assess", a, values, r,
                                  r.enum_catalog # enum_catalog
                                    \/ r.existing_enum_names # existing_enum_names))
    /\ UNCHANGED <<yaml_files, ckptFile, proposalFile, pc, args, checkpoint_root,
                   completed_keys, existing_keys, processed_count, rows_written, pause_counter,
                   stop_requested, vi, fi, view_ctx, exit_code, runs>>

\* the apply loop of main resolves the range of one field (determine_attribute_range)
ResolveApply ==
    /\ Len(calls) < MaxResolves
    /\ \E a \in ResolveArgs, values \in ResolveValues :
        LET field == [field |-> <<"f","l","a","g">>, values |-> values]
            r == determine_attribute_range(a, field, StringRange, ResolveClass, FallbackFile,
                                           yaml_files, enum_catalog, existing_enum_names)
        IN  /\ yaml_files' = r.yaml_files
            /\ enum_catalog' = r.enum_catalog
            /\ existing_enum_names' = r.existing_enum_names
            /\ calls' = Append(calls, ResolveCall("apply", a, values, r,
                                  r.yaml_files # yaml_files \/ r.enum_catalog # enum_catalog
                                    \/ r.existing_enum_names # existing_enum_names))
    /\ UNCHANGED <<ckptFile, proposalFile, pc, args, checkpoint_root,
                   completed_keys, existing_keys, processed_count, rows_written, pause_counter,
                   stop_requested, vi, fi, view_ctx, exit_code, runs>>

NextResolve ==
    \/ ResolveAssess
    \/ ResolveApply

SpecResolve == InitResolve /\ [][NextResolve]_vars

\* the tokens of a values column: split at ";" and ",", trimmed, lower-cased, no empty one
TokenSet(values) ==
    {Lower(Strip(t)) : t \in Range(SplitOn(values, {";", ","}))} \ {<<>>}

\* C7: strict booleans. A field whose token set is exactly {true, false}, resolved under
\* boolean_rule=strict by the assess loop or by determine_attribute_range, under any enum
\* strategy, gets the range 'boolean'; no enum is created, reused, named or reserved.
C7_StrictBooleanResolvesToBoolean ==
    \A i \in DOMAIN calls :
        (calls[i].boolean_rule = "strict" /\ TokenSet(calls[i].values) = {TokTrue, TokFalse})
        => /\ calls[i].range = <<"b","o","o","l","e","a","n">>
           /\ calls[i].enum_action \notin {"create", "reuse"}
           /\ calls[i].enum_name = <<>>
           /\ ~calls[i].enum_added

\* both resolvers have resolved 'False, TRUE ,true' under strict and reuse-first to boolean
C7_Witness ==
    \E i, j \in DOMAIN calls :
        /\ calls[i].mode = "assess"
        /\ calls[j].mode = "apply"
        /\ \A k \in {i, j} :
            /\ calls[k].boolean_rule = "strict"
            /\ calls[k].enum_strategy = "reuse-first"
            /\ calls[k].values = <<"F","a","l","s","e",","," ","T","R","U","E"," ",",","t","r","u","e">>
            /\ calls[k].range = <<"b","o","o","l","e","a","n">>

\* ------------------------------------------------------------------ class rename

MaxRenames == 2

FileB == <<AssessmentsDir, "b.yaml">>

NameDemog == <<"D","e","m","o","g">>

NameDEMOG == <<"D","E","M","O","G">>

NameDemographics == <<"D","e","m","o","g","r","a","p","h","i","c","s">>

\* a class of the given key whose is_a, mixins, attribute range and any_of name class r
ClassReferring(key, r) ==
    [name |-> key, is_a |-> r, mixins |-> <<r, <<"O","t","h","e","r">>>>,
     attributes |-> << [name |-> <<"d">>, range |-> r, any_of |-> <<r, StringRange>>] >>]

PlainClass(key) ==
    [name |-> key, is_a |-> <<>>, mixins |-> <<>>,
     attributes |-> << [name |-> <<"i","d">>, range |-> StringRange, any_of |-> <<>>] >>]

\* two loaded files; every class key occurs once in the store
StoreOf(classesA, classesB, r) ==
    << [path |-> FileA, classes |-> classesA, enums |-> <<>>, slots |-> <<>>],
       [path |-> FileB, classes |-> classesB, enums |-> <<>>,
        slots |-> << [name |-> <<"s">>, range |-> r, any_of |-> <<r>>] >>] >>

RenameStores ==
    {StoreOf(<<PlainClass(NameDemog), ClassReferring(<<"D","e","m","o","g","D","e","t","a","i","l">>, r)>>,
             <<ClassReferring(<<"V","i","s","i","t">>, r)>>, r) : r \in {NameDemog, NameDEMOG}}
    \cup {StoreOf(<<PlainClass(NameDEMOG), ClassReferring(<<"D","e","m","o","g","D","e","t","a","i","l">>, r)>>,
                  <<PlainClass(NameDemog)>>, r) : r \in {NameDemog, NameDEMOG}}
    \cup {StoreOf(<<ClassReferring(NameDemog, r), PlainClass(NameDEMOG)>>,
                  <<ClassReferring(<<"V","i","s","i","t">>, r)>>, r) : r \in {NameDemog, NameDEMOG}}

\* the names asked to be renamed: two keys, a name that resolves loosely, one that does not
RenameOldNames == {NameDemog, NameDEMOG, <<"d","e","m","o","g">>, <<"Z","z">>}

RenameNewNames == {NameDemog, NameDEMOG, NameDemographics}

InitRename ==
    /\ yaml_files \in RenameStores
    /\ NothingRun
    /\ enum_catalog = <<>>
    /\ existing_enum_names = {}
    /\ calls = <<>>

\* a caller renames a class (main, lines 1706-1730)
Rename ==
    /\ Len(calls) < MaxRenames
    /\ \E old \in RenameOldNames, new \in RenameNewNames :
        \E r \in {rename_class_and_references(yaml_files, old, new)} :
            /\ yaml_files' = r.yaml_files
            /\ calls' = Append(calls, [old_class_name |-> old, new_class_name |-> new,
                                       before |-> yaml_files, renamed |-> r.renamed,
                                       path |-> r.path, touched |-> r.touched,
                                       message |-> r.message, after |-> r.yaml_files])
    /\ UNCHANGED <<ckptFile, proposalFile, pc, args, checkpoint_root, completed_keys,
                   existing_keys, processed_count, rows_written, pause_counter, stop_requested,
                   enum_catalog, existing_enum_names, vi, fi, view_ctx, exit_code, runs>>

SpecRename == InitRename /\ [][Rename]_vars

ClassKeys(yf) == UNION {{yf[f].classes[c].name : c \in DOMAIN yf[f].classes} : f \in DOMAIN yf}

\* every class name a store refers to: is_a, mixins, attribute and slot range, any_of
References(yf) ==
    LET ofAttr(a) == {a.range} \cup Range(a.any_of)
        ofClass(d) == {d.is_a} \cup Range(d.mixins)
                        \cup UNION {ofAttr(d.attributes[i]) : i \in DOMAIN d.attributes}
    IN  UNION {UNION {ofClass(yf[f].classes[c]) : c \in DOMAIN yf[f].classes}
                 \cup UNION {ofAttr(yf[f].slots[i]) : i \in DOMAIN yf[f].slots} : f \in DOMAIN yf}

\* the key the old name of a call resolves to
ResolvedOld(call) == find_class_in_yaml(call.before, call.old_class_name, TRUE)

\* C9: a successful rename is complete. After a call that reports renamed, the home file
\* has the class under the new key with its definition (its references rewritten), no
\* class key of any file equals the name the old name resolved to, and no is_a, mixins
\* entry, attribute range, any_of range or slot range of any file equals that name.
C9_RenameIsComplete ==
    \A i \in DOMAIN calls :
        calls[i].renamed =>
            LET old_hit == ResolvedOld(calls[i])
                new == calls[i].new_class_name
                was == calls[i].before[old_hit.f].classes[old_hit.c]
                home == FileIndex(calls[i].after, calls[i].path)
            IN  /\ home # 0
                /\ \E c \in DOMAIN calls[i].after[home].classes :
                      calls[i].after[home].classes[c]
                          = [RenameInClass(was, old_hit.name, new) EXCEPT !.name = new]
                /\ old_hit.name # new =>
                      /\ old_hit.name \notin ClassKeys(calls[i].after)
                      /\ old_hit.name \notin References(calls[i].after)

\* C10: a rename that must fail leaves the store alone. When the old name resolves to no
\* class, when the new name is the key of another class than the one the old name
\* resolves to, or when old equals new, the call reports failure, touches no file and
\* returns the store as it was.
C10_FailedRenameChangesNothing ==
    \A i \in DOMAIN calls :
        LET old_hit == ResolvedOld(calls[i])
            new_hit == find_class_in_yaml(calls[i].before, calls[i].new_class_name, FALSE)
        IN  (\/ calls[i].old_class_name = calls[i].new_class_name
             \/ old_hit.f = 0
             \/ new_hit.f # 0 /\ <<new_hit.f, new_hit.c>> # <<old_hit.f, old_hit.c>>)
            => /\ ~calls[i].renamed
               /\ calls[i].touched = {}
               /\ calls[i].after = calls[i].before


\* ------------------------------------------------------------------ claims C11 to C20

\* the item the field loop is at
CurrentItemKey ==
    compute_item_key(CurrentView, to_camel_case(CurrentFields[fi].field),
                     view_ctx.target_class_name)

\* the step of the field loop that finds the attribute already present in the target
\* class (lines 1007-1010): the only step at the field loop that adds a completed key
AlreadyExistsStep ==
    /\ pc = "field"
    /\ pc' = "field"
    /\ completed_keys' # completed_keys

\* C11: an already present attribute is a no-op that counts as completed. The step that
\* finds the attribute in the target class leaves the schema store, the proposal CSV, the
\* enum catalog and the reserved enum names as they were, raises no error, and records
\* the item key in the completed set.
C11_AlreadyPresentIsNoOp ==
    [][AlreadyExistsStep
       => /\ yaml_files' = yaml_files
          /\ proposalFile' = proposalFile
          /\ enum_catalog' = enum_catalog
          /\ existing_enum_names' = existing_enum_names
          /\ exit_code' = exit_code
          /\ completed_keys' = completed_keys \cup {CurrentItemKey}]_vars


\* a step that ends an apply-mode process other than by a kill
ApplyRunEnds ==
    /\ pc = "loaded"
    /\ args.mode = "apply"
    /\ pc' = "idle"
    /\ ~Killed

\* file path of store yf holds class class_name with an attribute attr_name of that range
HasAttribute(yf, path, class_name, attr_name, range) ==
    \E f \in DOMAIN yf : \E c \in DOMAIN yf[f].classes :
        /\ yf[f].path = path
        /\ yf[f].classes[c].name = class_name
        /\ \E i \in DOMAIN yf[f].classes[c].attributes :
              /\ yf[f].classes[c].attributes[i].name = attr_name
              /\ yf[f].classes[c].attributes[i].range = range

\* the mapped views of the dictionary whose class no loaded file holds
NewClassViews ==
    {v \in DOMAIN all_dd_data :
        /\ normalize_view_name(all_dd_data[v].view) \in MappedViews
        /\ find_class_in_yaml(LoadedStore, MappedClass(normalize_view_name(all_dd_data[v].view)),
                              FALSE).f = 0}

\* C12: an apply-mode run creates the mapped class. An apply-mode run with keep-string and
\* no pause budget, over a dictionary with views whose mapped class no file holds and is
\* similar to no class, ends normally with the class in the fallback assessments file,
\* each named field being an attribute of range string (or boolean) under its camel-cased
\* name, and the camel-cased name of the field 'Age' is 'age'.
C12_ApplyCreatesClassInFallbackFile ==
    [][(ApplyRunEnds /\ args.enum_strategy = "keep-string" /\ args.pause_after = 0)
       => /\ exit_code' = "ok"
          /\ to_camel_case(<<"A","g","e">>) = <<"a","g","e">>
          /\ \A v \in NewClassViews : \A i \in DOMAIN all_dd_data[v].fields :
                to_camel_case(all_dd_data[v].fields[i].field) # <<>>
                => \E range \in {StringRange, <<"b","o","o","l","e","a","n">>} :
                      HasAttribute(yaml_files', FallbackFile,
                                   MappedClass(normalize_view_name(all_dd_data[v].view)),
                                   to_camel_case(all_dd_data[v].fields[i].field), range)]_vars


\* the order in which a mode's view loop takes the views: run_assess_mode iterates
\* sorted(all_dd_data.keys()) (line 939), main iterates all_dd_data.items() (line 1578),
\* the order in which parse_data_dictionary met the views in the dictionary files
ViewOrder(mode) ==
    IF mode = "assess" THEN SortedViews
    ELSE [i \in DOMAIN all_dd_data |-> all_dd_data[i].view]

\* the place of a proposal row's item in the order the claim gives: the rank of its view
\* among the sorted view names, then the place of its field in the view's fields
RowPlace(row) ==
    LET v == FirstIndex({k \in DOMAIN SortedViews : SortedViews[k] = row.view_name})
        fields == all_dd_data[DictIndex(row.view_name)].fields
    IN  <<v, FirstIndex({f \in DOMAIN fields : to_camel_case(fields[f].field) = row.attribute_name})>>

\* the proposal rows are in the order of their items
RowsInItemOrder ==
    \A i, j \in DOMAIN proposalFile.rows :
        i < j => \/ RowPlace(proposalFile.rows[i])[1] < RowPlace(proposalFile.rows[j])[1]
                 \/ /\ RowPlace(proposalFile.rows[i])[1] = RowPlace(proposalFile.rows[j])[1]
                    /\ RowPlace(proposalFile.rows[i])[2] < RowPlace(proposalFile.rows[j])[2]

\* C13: the processing order is the same in both modes. The view loop of a running
\* process, whatever its mode, takes the views in the sorted order of their names, and
\* the items are processed (their rows written) by view rank, then by field position.
C13_SortedViewsThenFileOrder ==
    /\ pc # "idle" => ViewOrder(args.mode) = SortedViews
    /\ RowsInItemOrder


\* the step that returns from a run whose loops ended on the stop flag, set by the pause
\* budget (line 1062) or by the signal handler
EarlyEnd ==
    /\ pc = "finish"
    /\ stop_requested
    /\ pc' = "idle"
    /\ ~Killed

StopPending == pc # "idle" /\ stop_requested

\* C15: cooperative cancellation. From the delivery of a SIGINT to a running process the
\* stop flag stays set for as long as the process runs, and no step of the view loop or
\* of the field loop taken with the flag set writes a proposal row or completes an item:
\* the loop is left for the end of the run (the process not being killed).
C15_InterruptIsNeverLost ==
    [][(StopPending /\ ~Killed)
       => /\ pc' # "idle" => stop_requested'
          /\ pc \in {"view", "field"}
             => /\ proposalFile' = proposalFile
                /\ completed_keys' = completed_keys
                /\ pc' = "finish"]_vars


\* C16: assess mode never changes the schema. At every step of an assess-mode process,
\* from the start of main to its exit, the schema store is the store as loaded before
\* and after the step; what a step changes outside the process is the proposal CSV or
\* the checkpoint file.
C16_AssessLeavesStoreAsLoaded ==
    [][(\/ pc # "idle" /\ args.mode = "assess"
        \/ pc = "idle" /\ pc' # "idle" /\ args'.mode = "assess")
       => /\ yaml_files = LoadedStore
          /\ yaml_files' = LoadedStore]_vars

\* an assess run has gone through every view and proposed the creation of enums
C16_Witness ==
    /\ pc = "finish"
    /\ args.mode = "assess"
    /\ ~stop_requested
    /\ rows_written = 4
    /\ \E i \in DOMAIN proposalFile.rows : proposalFile.rows[i].enum_action = "create"
    /\ yaml_files = LoadedStore


\* a step of a process started with --dry-run, its start included
DryRunStep ==
    \/ pc # "idle" /\ args.dry_run
    \/ pc = "idle" /\ runs' = runs + 1 /\ args'.dry_run

\* C17: --dry-run writes no file. No step of a process started with --dry-run, in either
\* mode, changes the schema store, the checkpoint file or the proposal CSV.
C17_DryRunWritesNothing ==
    [][DryRunStep
       => /\ yaml_files' = yaml_files
          /\ ckptFile' = ckptFile
          /\ proposalFile' = proposalFile]_vars


\* C18: apply mode terminates normally. Every apply-mode process that is not killed ends
\* with exit code 0, after completion or a pause, never with an unhandled error.
C18_ApplyExitsZero ==
    [][ApplyRunEnds => exit_code' \in {"ok", "paused"}]_vars


\* the places of a store's class definitions: file and position in the file
ClassPlaces(yf) == UNION {{<<f, c>> : c \in DOMAIN yf[f].classes} : f \in DOMAIN yf}

\* no class name is the key of two class definitions, in one file or in two
UniqueClassKeys(yf) ==
    \A p, q \in ClassPlaces(yf) :
        yf[p[1]].classes[p[2]].name = yf[q[1]].classes[q[2]].name => p = q

\* no class has two attributes of one name
UniqueAttributeNames(yf) ==
    \A p \in ClassPlaces(yf) :
        \A i, j \in DOMAIN yf[p[1]].classes[p[2]].attributes :
            yf[p[1]].classes[p[2]].attributes[i].name = yf[p[1]].classes[p[2]].attributes[j].name
            => i = j

\* C19: the uniqueness invariant of the schema store. From a store whose class names
\* each occur once, after any sequence of renames every class name is the key of at most
\* one definition in at most one file, no class has two attributes of one name, and no
\* rename has made a class definition disappear (the store has as many as before).
C19_StoreNamesStayUnique ==
    /\ UniqueClassKeys(yaml_files)
    /\ UniqueAttributeNames(yaml_files)
    /\ \A i \in DOMAIN calls :
          Cardinality(ClassPlaces(calls[i].after)) = Cardinality(ClassPlaces(calls[i].before))


\* ------------------------------------------------------------------ add_merge_note_to_class_description

MaxNotes == 3

\* note in existing_desc: sub is a substring of s
Contains(s, sub) == \E i \in 1..(Len(s) - Len(sub) + 1) : SubSeq(s, i, i + Len(sub) - 1) = sub

\* the number of places of s where sub occurs
Occurrences(s, sub) ==
    Cardinality({i \in 1..(Len(s) - Len(sub) + 1) : SubSeq(s, i, i + Len(sub) - 1) = sub})

\* note = f"Merged source: {merge_label} ({view_name})", the label being the stripped
\* form name or, without one, the mapped class name (lines 352-353)
MergeNote(mapped_class_name, view_name, form_name) ==
    LET merge_label == IF Strip(form_name) # <<>> THEN Strip(form_name) ELSE mapped_class_name
    IN  <<"M","e","r","g","e","d"," ","s","o","u","r","c","e",":"," ">> \o merge_label \o <<" ", "(">> \o view_name \o <<")">>

\* add_merge_note_to_class_description with the substring test dropped
add_merge_note_Always(description, mapped_class_name, view_name, form_name) ==
    IF Strip(description) # <<>>
    THEN Strip(description) \o <<"\n">> \o MergeNote(mapped_class_name, view_name, form_name)
    ELSE MergeNote(mapped_class_name, view_name, form_name)

\* add_merge_note_to_class_description: the description of class_def after the call
add_merge_note_to_class_description(description, mapped_class_name, view_name, form_name) ==
    LET note == MergeNote(mapped_class_name, view_name, form_name)
        existing_desc == Strip(description)
    IN  IF Contains(existing_desc, note) THEN description
        ELSE IF existing_desc # <<>> THEN existing_desc \o <<"\n">> \o note
        ELSE note

\* descriptions a class is loaded with: none, a block scalar, a note of an earlier run
NoteDescriptions ==
    { <<>>, <<" ","D","\n">>, <<"M","e","r","g","e","d"," ","s","o","u","r","c","e",":"," ","C"," ","(","V",")","\n">> }

NoteForms == { <<>>, <<" ">>, <<" ","F"," ">>, <<"C"," ","(","V",")">> }

NoteViews == { <<"V">>, <<"W">> }

NoteClass == <<"C">>

\* a store of one file with one class, which has a description
NoteStore(description) ==
    <<[path |-> FileA,
       classes |-> <<[name |-> NoteClass, is_a |-> <<>>, mixins |-> <<>>, attributes |-> <<>>,
                      description |-> description]>>,
       enums |-> <<>>, slots |-> <<>>]>>

InitNote ==
    /\ yaml_files \in {NoteStore(d) : d \in NoteDescriptions}
    /\ NothingRun
    /\ enum_catalog = <<>>
    /\ existing_enum_names = {}
    /\ calls = <<>>

\* a view is merged into the class (main, lines 1740-1746)
AddMergeNote ==
    /\ Len(calls) < MaxNotes
    /\ \E form_name \in NoteForms, view_name \in NoteViews :
        \E after \in {add_merge_note_to_class_description(yaml_files[1].classes[1].description,
                                                          NoteClass, view_name, form_name)} :
            /\ yaml_files' = [yaml_files EXCEPT ![1].classes[1].description = after]
            /\ calls' = Append(calls, [mapped_class_name |-> NoteClass, view_name |-> view_name,
                                       form_name |-> form_name,
                                       before |-> yaml_files[1].classes[1].description,
                                       after |-> after])
    /\ UNCHANGED <<ckptFile, proposalFile, pc, args, checkpoint_root, completed_keys,
                   existing_keys, processed_count, rows_written, pause_counter, stop_requested,
                   enum_catalog, existing_enum_names, vi, fi, view_ctx, exit_code, runs>>

SpecNote == InitNote /\ [][AddMergeNote]_vars

\* the note of a recorded call
NoteOf(call) == MergeNote(call.mapped_class_name, call.view_name, call.form_name)

\* calls i and j have the same arguments
SameNoteArguments(i, j) ==
    /\ calls[i].mapped_class_name = calls[j].mapped_class_name
    /\ calls[i].view_name = calls[j].view_name
    /\ calls[i].form_name = calls[j].form_name

\* C20: the merge note is idempotent. After every call the note text of the call occurs
\* exactly once in the description, and a call that follows a call with the same
\* arguments leaves the description unchanged.
C20_NoteOccursExactlyOnce ==
    \A i \in DOMAIN calls :
        /\ Occurrences(calls[i].after, NoteOf(calls[i])) = 1
        /\ \A j \in 1..(i - 1) : SameNoteArguments(i, j) => calls[i].after = calls[i].before

\* C20, amended: a call never adds a second occurrence. After every call the note text
\* occurs in the description, exactly once if it occurred at most once before the call
\* and as often as before otherwise; a further call with the same arguments would leave
\* the description unchanged, and a call that follows a call with the same arguments
\* does leave it unchanged.
C20_NoteAddedAtMostOnce ==
    \A i \in DOMAIN calls :
        /\ Contains(calls[i].after, NoteOf(calls[i]))
        /\ Occurrences(calls[i].after, NoteOf(calls[i]))
              = IF Occurrences(calls[i].before, NoteOf(calls[i])) = 0 THEN 1
                ELSE Occurrences(calls[i].before, NoteOf(calls[i]))
        /\ add_merge_note_to_class_description(calls[i].after, calls[i].mapped_class_name,
                                               calls[i].view_name, calls[i].form_name)
              = calls[i].after
        /\ \A j \in 1..(i - 1) : SameNoteArguments(i, j) => calls[i].after = calls[i].before

\* the note was appended to a description that had text, another view was merged, and
\* the first call was repeated without effect
C20_Witness ==
    /\ Len(calls) = 3
    /\ SameNoteArguments(1, 3)
    /\ ~SameNoteArguments(1, 2)
    /\ calls[1].before = <<" ","D","\n">>
    /\ calls[1].after # calls[1].before
    /\ calls[2].after # calls[2].before
    /\ calls[3].after = calls[3].before
    /\ Occurrences(calls[3].after, NoteOf(calls[3])) = 1


\* ------------------------------------------------------------------ the view-name guard

MaxReviews == 1

\* re.match(r'^(?:v|ct)_allals_(?:as|pr|pv)_[a-z0-9_]+$', s)
MatchesViewPattern(s) ==
    \E p \in {<<"v","_","a","l","l","a","l","s","_">>, <<"c","t","_","a","l","l","a","l","s","_">>}, q \in {<<"a","s","_">>, <<"p","r","_">>, <<"p","v","_">>} :
        /\ Len(s) > Len(p \o q)
        /\ SubSeq(s, 1, Len(p \o q)) = p \o q
        /\ \A i \in (Len(p \o q) + 1)..Len(s) : IsLower(s[i]) \/ s[i] \in Digits \/ s[i] = "_"

\* is_view_like_name with the test dropped
is_view_like_name_Never(value) == FALSE

\* is_view_like_name
is_view_like_name(value) == MatchesViewPattern(normalize_view_name(value))

RECURSIVE review_loop(_, _, _)
\* the interactive loop of the attribute review (lines 1838-1862): the k-th suggestion is
\* shown and prompt_review_action answered; feedback asks the oracle again
review_loop(decisions, answers, k) ==
    IF answers[k] \in {"accept", "skip"}
    THEN [prompts |-> k, answer |-> answers[k], action |-> decisions[k]]
    ELSE review_loop(decisions, answers, k + 1)

\* the attribute review of the apply loop (lines 1778-1866): whether the field goes on
\* to be added (target_class_name is set), after how many prompts and on which answer
review_attribute(a, field_raw_name, decisions, answers) ==
    IF ~a.use_gemini_review
    THEN [prompts |-> 0, answer |-> "none", added |-> TRUE]
    ELSE IF a.auto_accept_gemini /\ ~is_view_like_name(field_raw_name)
    THEN [prompts |-> 0, answer |-> "none", added |-> decisions[1] # "skip"]
    ELSE IF ~a.confirm_attribute_changes /\ ~is_view_like_name(field_raw_name)
    THEN [prompts |-> 0, answer |-> "none", added |-> decisions[1] # "skip"]
    ELSE [prompts |-> review_loop(decisions, answers, 1).prompts,
          answer |-> review_loop(decisions, answers, 1).answer,
          added |-> /\ review_loop(decisions, answers, 1).answer = "accept"
                    /\ review_loop(decisions, answers, 1).action # "skip"]

\* the review options main accepts (line 1493: --auto-accept-gemini needs --use-gemini-review)
GuardArgs ==
    {a \in [use_gemini_review : BOOLEAN, auto_accept_gemini : BOOLEAN,
            confirm_attribute_changes : BOOLEAN] : a.auto_accept_gemini => a.use_gemini_review}

GuardFields ==
    { <<"v","_","a","l","l","a","l","s","_","a","s","_","a">>, <<"C","T","_","A","L","L","A","L","S","_","P","V","_","B","2"," ">>, <<"v","_","a","l","l","a","l","s","_","a","s","_">>, <<"v","_","a","l","l","a","l","s","_","x","x","_","a">>, <<"a","g","e">> }

\* the oracle's suggestions, the first and the one after a feedback
GuardDecisions ==
    { <<"use_default", "use_default">>, <<"skip", "use_default">>, <<"use_default", "skip">> }

\* the user's answers to prompt_review_action
GuardAnswers ==
    { <<"accept">>, <<"skip">>, <<"feedback", "accept">>, <<"feedback", "skip">> }

InitGuard ==
    /\ yaml_files = LoadedStore
    /\ NothingRun
    /\ enum_catalog = <<>>
    /\ existing_enum_names = {}
    /\ calls = <<>>

\* the apply loop reviews one field
ReviewField ==
    /\ Len(calls) < MaxReviews
    /\ \E a \in GuardArgs, field \in GuardFields, decisions \in GuardDecisions,
          answers \in GuardAnswers :
        \E r \in {review_attribute(a, field, decisions, answers)} :
            calls' = Append(calls, [use_gemini_review |-> a.use_gemini_review,
                                    auto_accept_gemini |-> a.auto_accept_gemini,
                                    confirm_attribute_changes |-> a.confirm_attribute_changes,
                                    field |-> field, decisions |-> decisions,
                                    answers |-> answers, prompts |-> r.prompts,
                                    answer |-> r.answer, added |-> r.added])
    /\ UNCHANGED <<yaml_files, ckptFile, proposalFile, pc, args, checkpoint_root, completed_keys,
                   existing_keys, processed_count, rows_written, pause_counter, stop_requested,
                   enum_catalog, existing_enum_names, vi, fi, view_ctx, exit_code, runs>>

SpecGuard == InitGuard /\ [][ReviewField]_vars

\* C21: the view-name guard. With AI review enabled, a field whose raw name matches the
\* view-identifier pattern goes on to be added as an attribute only after at least one
\* interactive prompt, the last of which was answered accept, whatever the values of
\* --auto-accept-gemini and --confirm-attribute-changes.
C21_ViewLikeFieldNeedsAccept ==
    \A i \in DOMAIN calls :
        (/\ calls[i].use_gemini_review
         /\ MatchesViewPattern(calls[i].field)
         /\ calls[i].added)
        => /\ calls[i].prompts >= 1
           /\ calls[i].answer = "accept"
           /\ calls[i].answers[calls[i].prompts] = "accept"

\* a view-like field was accepted at the prompt of a run with --auto-accept-gemini,
\* after a feedback round
C21_Witness ==
    \E i \in DOMAIN calls :
        /\ calls[i].auto_accept_gemini
        /\ ~calls[i].confirm_attribute_changes
        /\ MatchesViewPattern(calls[i].field)
        /\ calls[i].added
        /\ calls[i].prompts = 2


\* ------------------------------------------------------------------ claims C22 to C30

\* what the checkpoint file holds for the modes other than mode
OtherModes(file, mode) == [m \in Modes \ {mode} |-> file.modes[m]]

\* C22: --reset-checkpoint restarts only the given mode. No step of a process started
\* with --reset-checkpoint, its start included (the process not being killed), changes
\* the completed keys, the processed count or the signature the checkpoint file holds
\* for the other mode.
C22_ResetKeepsOtherMode ==
    [][/\ (pc = "idle" /\ runs' = runs + 1 /\ args'.reset_checkpoint)
          => OtherModes(ckptFile', args'.mode) = OtherModes(ckptFile, args'.mode)
       /\ (pc # "idle" /\ args.reset_checkpoint /\ ~Killed)
          => OtherModes(ckptFile', args.mode) = OtherModes(ckptFile, args.mode)]_vars


\* ------------------------------------------------------------------ the suggestion oracle

MaxOracleCalls == 1

\* how a CLI call ends: it times out, or it exits with a status having printed text that
\* is not JSON, a JSON list, or a JSON object
OracleOutcomes ==
    {[timeout |-> TRUE, exit |-> 0, output |-> "text"]}
        \cup [timeout : {FALSE}, exit : {0, 1}, output : {"text", "list", "object"}]

NotConsulted == [timeout |-> FALSE, exit |-> 0, output |-> "unused"]

\* _parse_json_from_model_output: None, or the parsed value
parse_json_from_model_output(output) ==
    IF output = "object" THEN "dict" ELSE IF output = "list" THEN "list" ELSE "none"

\* run_gemini_json: an exception (the timeout) and a non-zero exit give None
run_gemini_json(o) ==
    IF o.timeout \/ o.exit # 0 THEN "none" ELSE parse_json_from_model_output(o.output)

\* run_codex_json: an exception gives None; otherwise the last message or stdout is
\* returned if it parses to a dict, whatever the exit status
run_codex_json(o) ==
    IF o.timeout THEN "none"
    ELSE IF parse_json_from_model_output(o.output) = "dict" THEN "dict" ELSE "none"

\* run_ai_json: (parsed_json_or_none, source_label)
run_ai_json(provider, use_codex_fallback, gemini, codex) ==
    IF provider = "codex"
    THEN IF run_codex_json(codex) = "dict" THEN [parsed |-> "dict", source |-> "codex"]
         ELSE [parsed |-> "none", source |-> "none"]
    ELSE IF run_gemini_json(gemini) = "dict" THEN [parsed |-> "dict", source |-> "gemini"]
    ELSE IF use_codex_fallback /\ run_codex_json(codex) = "dict"
    THEN [parsed |-> "dict", source |-> "codex"]
    ELSE [parsed |-> "none", source |-> "none"]

\* the object the oracle prints when it prints one
OracleSuggestion ==
    [action |-> "add_to_existing_class", class_name |-> NameDemog, target_file |-> FileB,
     attribute_name |-> <<"a","g","e","Y","e","a","r","s">>, range |-> <<"i","n","t","e","g","e","r">>,
     reason |-> "suggested"]

NoCandidate == [class_name |-> <<>>, file |-> NoPath]

\* ai_review_class_placement after run_ai_json (lines 1241-1270)
ai_review_class_placement(mapped_class_name, default_target_file, closest_candidate, r) ==
    IF r.parsed # "dict"
    THEN IF closest_candidate.class_name # <<>> /\ closest_candidate.file # NoPath
         THEN [action |-> "use_existing_class", class_name |-> closest_candidate.class_name,
               target_file |-> closest_candidate.file,
               reason |-> "ai_unavailable_or_invalid_using_closest_match"]
         ELSE [action |-> "use_default", class_name |-> mapped_class_name,
               target_file |-> default_target_file, reason |-> "ai_unavailable_or_invalid"]
    ELSE [action |-> "use_existing_class", class_name |-> OracleSuggestion.class_name,
          target_file |-> OracleSuggestion.target_file, reason |-> OracleSuggestion.reason]

\* ai_review_attribute_placement after run_ai_json (lines 1321-1351)
ai_review_attribute_placement(class_name, target_file, attr_name, r) ==
    IF r.parsed # "dict"
    THEN [action |-> "use_default", class_name |-> class_name, target_file |-> target_file,
          attribute_name |-> attr_name, range |-> StringRange,
          reason |-> "ai_unavailable_or_invalid"]
    ELSE [action |-> OracleSuggestion.action, class_name |-> OracleSuggestion.class_name,
          target_file |-> OracleSuggestion.target_file,
          attribute_name |-> OracleSuggestion.attribute_name,
          range |-> OracleSuggestion.range, reason |-> OracleSuggestion.reason]

\* the providers a call consults and how each ends: codex alone, or gemini and, when
\* gemini gave no object and the fallback is enabled, codex
OracleRuns ==
    {o \in [provider : {"gemini", "codex"}, use_codex_fallback : BOOLEAN,
            gemini : OracleOutcomes \cup {NotConsulted},
            codex : OracleOutcomes \cup {NotConsulted}] :
        /\ o.provider = "codex" => ~o.use_codex_fallback
        /\ (o.gemini = NotConsulted) = (o.provider = "codex")
        /\ (o.codex = NotConsulted)
              = (o.provider = "gemini"
                    /\ (~o.use_codex_fallback \/ run_gemini_json(o.gemini) = "dict"))}

OracleCandidates == {NoCandidate, [class_name |-> <<"Z","e","d">>, file |-> FileA]}

InitOracle ==
    /\ yaml_files = LoadedStore
    /\ NothingRun
    /\ enum_catalog = <<>>
    /\ existing_enum_names = {}
    /\ calls = <<>>

\* main asks for the placement of the class of a view (lines 1622-1634)
ReviewClassPlacement ==
    /\ Len(calls) < MaxOracleCalls
    /\ \E o \in OracleRuns, closest \in OracleCandidates :
        \E r \in {run_ai_json(o.provider, o.use_codex_fallback, o.gemini, o.codex)} :
            calls' = Append(calls, [kind |-> "class", run |-> o, closest_candidate |-> closest,
                                    class_name |-> ResolveClass, target_file |-> FallbackFile,
                                    attr_name |-> <<>>,
                                    decision |-> ai_review_class_placement(
                                                     ResolveClass, FallbackFile, closest, r)])
    /\ UNCHANGED <<yaml_files, ckptFile, proposalFile, pc, args, checkpoint_root, completed_keys,
                   existing_keys, processed_count, rows_written, pause_counter, stop_requested,
                   enum_catalog, existing_enum_names, vi, fi, view_ctx, exit_code, runs>>

\* main asks for the placement of an attribute (lines 1784-1797)
ReviewAttributePlacement ==
    /\ Len(calls) < MaxOracleCalls
    /\ \E o \in OracleRuns :
        \E r \in {run_ai_json(o.provider, o.use_codex_fallback, o.gemini, o.codex)} :
            calls' = Append(calls, [kind |-> "attribute", run |-> o,
                                    closest_candidate |-> NoCandidate,
                                    class_name |-> ResolveClass, target_file |-> FallbackFile,
                                    attr_name |-> <<"a","g","e">>,
                                    decision |-> ai_review_attribute_placement(
                                        ResolveClass, FallbackFile, <<"a","g","e">>, r)])
    /\ UNCHANGED <<yaml_files, ckptFile, proposalFile, pc, args, checkpoint_root, completed_keys,
                   existing_keys, processed_count, rows_written, pause_counter, stop_requested,
                   enum_catalog, existing_enum_names, vi, fi, view_ctx, exit_code, runs>>

NextOracle ==
    \/ ReviewClassPlacement
    \/ ReviewAttributePlacement

SpecOracle == InitOracle /\ [][NextOracle]_vars

\* a provider's call failed: it timed out, exited non-zero, or printed no JSON object
ProviderFailed(o) == o.timeout \/ o.exit # 0 \/ o.output # "object"

\* every provider the call consulted failed
OracleFailed(run) ==
    /\ run.gemini # NotConsulted => ProviderFailed(run.gemini)
    /\ run.codex # NotConsulted => ProviderFailed(run.codex)

\* C23: oracle failure is never fatal. When every provider consulted for a suggestion
\* timed out, exited non-zero or printed something that is not a JSON object, the review
\* returns the fallback decision: for a class, use_existing_class with the closest
\* candidate's class and file if there is a closest candidate, else use_default with the
\* mapped class and the default file; for an attribute, use_default with the default
\* class, file and attribute name and the range string.
C23_OracleFailureFallsBack ==
    \A i \in DOMAIN calls :
        OracleFailed(calls[i].run) =>
            IF calls[i].kind = "class"
            THEN IF calls[i].closest_candidate # NoCandidate
                 THEN /\ calls[i].decision.action = "use_existing_class"
                      /\ calls[i].decision.class_name = calls[i].closest_candidate.class_name
                      /\ calls[i].decision.target_file = calls[i].closest_candidate.file
                 ELSE /\ calls[i].decision.action = "use_default"
                      /\ calls[i].decision.class_name = calls[i].class_name
                      /\ calls[i].decision.target_file = calls[i].target_file
            ELSE /\ calls[i].decision.action = "use_default"
                 /\ calls[i].decision.class_name = calls[i].class_name
                 /\ calls[i].decision.target_file = calls[i].target_file
                 /\ calls[i].decision.attribute_name = calls[i].attr_name
                 /\ calls[i].decision.range = StringRange


\* ------------------------------------------------------------------ class lookup
\* find_class_in_yaml called on stores that hold, in every order over two files, three
\* of five keys: the requested name itself, the name in another letter case, a key with
\* the same normalized form, a key with the same stem, and a key that is only similar.

MaxFinds == 1

FindClassKeys ==
    {<<"D","e","m","o","g","r","a","p","h","i","c","s">>, <<"D","E","M","O","G","R","A","P","H","I","C","S">>, <<"D","e","m","o","_","G","r","a","p","h","i","c","s">>, <<"D","e","m","o","g","r","a","p","h","i","c","s","A","s","s","e","s","s">>,
     <<"D","e","m","o","g","r","a","p","h","i","c","s","s">>}

FindStores ==
    {StoreOf(<<PlainClass(a), PlainClass(b)>>, <<PlainClass(c)>>, StringRange) :
        <<a, b, c>> \in {t \in FindClassKeys \X FindClassKeys \X FindClassKeys :
                            t[1] # t[2] /\ t[1] # t[3] /\ t[2] # t[3]}}

FindNames == {<<"D","e","m","o","g","r","a","p","h","i","c","s">>, <<"d","e","m","o","g","r","a","p","h","i","c","s">>, <<"Z","z">>}

InitFind ==
    /\ yaml_files \in FindStores
    /\ NothingRun
    /\ enum_catalog = <<>>
    /\ existing_enum_names = {}
    /\ calls = <<>>

\* a caller looks a class up (main, lines 1606 and 1640; rename, line 1163)
FindClass ==
    /\ Len(calls) < MaxFinds
    /\ \E class_name \in FindNames, loose \in BOOLEAN :
        \E r \in {find_class_in_yaml(yaml_files, class_name, loose)} :
            calls' = Append(calls, [class_name |-> class_name, loose |-> loose, found |-> r])
    /\ UNCHANGED <<yaml_files, ckptFile, proposalFile, pc, args, checkpoint_root,
                   completed_keys, existing_keys, processed_count, rows_written,
                   pause_counter, stop_requested, enum_catalog, existing_enum_names, vi, fi,
                   view_ctx, exit_code, runs>>

SpecFind == InitFind /\ [][FindClass]_vars

\* the four ways a key of the store can match a requested name
ExactKey(key, class_name) == key = class_name

CaseKey(key, class_name) == Lower(key) = Lower(class_name)

NormOrStemKey(key, class_name) ==
    /\ normalize_class_name(key) # <<>>
    /\ \/ normalize_class_name(key) = normalize_class_name(class_name)
       \/ /\ class_name_stem(class_name) # <<>>
          /\ class_name_stem(key) = class_name_stem(class_name)

FuzzyKey(key, class_name) ==
    /\ normalize_class_name(key) # <<>>
    /\ RatioAtLeastPct(Ratio(normalize_class_name(class_name), normalize_class_name(key)),
                       FuzzyThresholdPct)

\* the result names a class of the store at the place it says
FoundInStore(found) ==
    /\ found.f \in DOMAIN yaml_files
    /\ found.c \in DOMAIN yaml_files[found.f].classes
    /\ yaml_files[found.f].classes[found.c].name = found.name
    /\ yaml_files[found.f].path = found.path

\* C24: an exact key is returned whatever the loose flag and whatever else matches;
\* without loose matching the result is not-found unless an exact key exists; with loose
\* matching a key equal up to letter case is preferred to every normalized, stem or fuzzy
\* match, and a normalized or stem match to every fuzzy match.
C24_MatchPrecedence ==
    \A i \in DOMAIN calls :
        LET call == calls[i]
            keys == ClassKeys(yaml_files)
            anyExact == \E k \in keys : ExactKey(k, call.class_name)
            anyCase == \E k \in keys : CaseKey(k, call.class_name)
            anyNorm == \E k \in keys : NormOrStemKey(k, call.class_name)
        IN  /\ call.found # NotFound => FoundInStore(call.found)
            /\ anyExact => call.found.name = call.class_name
            /\ ~anyExact /\ ~call.loose => call.found = NotFound
            /\ ~anyExact /\ call.loose /\ anyCase =>
                    /\ call.found # NotFound
                    /\ CaseKey(call.found.name, call.class_name)
            /\ ~anyExact /\ call.loose /\ ~anyCase /\ anyNorm =>
                    /\ call.found # NotFound
                    /\ NormOrStemKey(call.found.name, call.class_name)

\* a loose lookup with no exact key and no key equal up to case, where a fuzzy match
\* stands before the normalized match that is returned
C24_Witness ==
    \E i \in DOMAIN calls :
        /\ calls[i].loose
        /\ calls[i].class_name = <<"d","e","m","o","g","r","a","p","h","i","c","s">>
        /\ yaml_files[1].classes[1].name = <<"D","e","m","o","g","r","a","p","h","i","c","s","s">>
        /\ FuzzyKey(<<"D","e","m","o","g","r","a","p","h","i","c","s","s">>, calls[i].class_name)
        /\ ~NormOrStemKey(<<"D","e","m","o","g","r","a","p","h","i","c","s","s">>, calls[i].class_name)
        /\ \A k \in ClassKeys(yaml_files) : ~CaseKey(k, calls[i].class_name)
        /\ NormOrStemKey(calls[i].found.name, calls[i].class_name)

\* ------------------------------------------------------------------ proposal rows

\* C25: proposal rows are never duplicated. In every reachable state, so after any
\* sequence of assess runs and resumes, kills between the writing of a row and the saving
\* of the checkpoint included, no item key is in two rows of the proposal CSV.
C25_NoKeyInTwoRows ==
    \A i, j \in DOMAIN proposalFile.rows :
        proposalFile.rows[i].item_key = proposalFile.rows[j].item_key => i = j

\* a --resume run has appended its first row to a CSV that holds a row the checkpoint
\* file does not know: the earlier process was killed after writing it and before saving
C25_Witness ==
    /\ pc = "rowWritten"
    /\ args.resume
    /\ ~args.reset_checkpoint
    /\ runs = 2
    /\ rows_written = 0
    /\ ckptFile.state = "ok"
    /\ \E i \in 1..(Len(proposalFile.rows) - 1) :
            proposalFile.rows[i].item_key \notin ckptFile.modes["assess"].completed_keys

\* C28: proposal rows are not lost. Every step that ends an assess run started without
\* --reset-checkpoint (with or without --resume) leaves each item key of the completed
\* set of the checkpoint file, other than the keys of items that need no output, with
\* its row in the proposal CSV.
C28_RowsKeptAtRunEnd ==
    [][(/\ pc = "finish"
        /\ pc' = "idle"
        /\ ~Killed
        /\ args.mode = "assess"
        /\ ~args.reset_checkpoint)
       => /\ ckptFile'.state = "ok"
          /\ (ckptFile'.modes["assess"].completed_keys \ AlreadyPresentKeys)
                \subseteq RowKeys']_vars

\* ------------------------------------------------------------------ enum round trip
\* determine_attribute_range creates enums in the store; a later process loads the store
\* and builds its catalog from the persisted definitions.

MaxEnumCalls == 3

EnumValueColumns == {<<"m",";","f">>, <<"N","o","t"," ","s","u","r","e",";","y","e","s">>, <<"n","/","a",";","n","o">>, <<" ","F"," ",";"," ","M">>, <<"a"," ","b",";","a","_","b">>}

EnumArgs == [enum_strategy |-> "reuse-first", boolean_rule |-> "strict"]

InitEnum ==
    /\ yaml_files = LoadedStore
    /\ NothingRun
    /\ enum_catalog = build_enum_catalog(LoadedStore)
    /\ existing_enum_names = CatalogNames(build_enum_catalog(LoadedStore))
    /\ calls = <<>>

\* the value set build_enum_catalog computes for the enum of that name in the store
PersistedValueSet(yf, enum_name) ==
    LET loaded == build_enum_catalog(yf)
        at == FirstIndex({i \in DOMAIN loaded : loaded[i].name = enum_name})
    IN  IF at = 0 THEN {} ELSE loaded[at].value_set

\* the apply loop resolves the range of one field (main, lines 1921-1930)
ResolveField ==
    /\ Len(calls) < MaxEnumCalls
    /\ \E values \in EnumValueColumns :
        \E r \in {determine_attribute_range(EnumArgs, [field |-> <<"f","l","a","g">>, values |-> values],
                                            StringRange, ResolveClass, FallbackFile,
                                            yaml_files, enum_catalog, existing_enum_names)} :
            /\ yaml_files' = r.yaml_files
            /\ enum_catalog' = r.enum_catalog
            /\ existing_enum_names' = r.existing_enum_names
            /\ calls' = Append(calls,
                    [values |-> values,
                     enum_action |-> r.enum_action,
                     enum_name |-> r.enum_name,
                     value_set |-> IF r.enum_action = "create"
                                   THEN r.enum_catalog[Len(r.enum_catalog)].value_set ELSE {},
                     persisted |-> PersistedValueSet(r.yaml_files, r.enum_name)])
    /\ UNCHANGED <<ckptFile, proposalFile, pc, args, checkpoint_root, completed_keys,
                   existing_keys, processed_count, rows_written, pause_counter,
                   stop_requested, vi, fi, view_ctx, exit_code, runs>>

\* a later process starts on the persisted store (main, lines 1576-1577)
LoadAgain ==
    /\ enum_catalog' = build_enum_catalog(yaml_files)
    /\ existing_enum_names' = CatalogNames(build_enum_catalog(yaml_files))
    /\ UNCHANGED <<yaml_files, ckptFile, proposalFile, pc, args, checkpoint_root,
                   completed_keys, existing_keys, processed_count, rows_written,
                   pause_counter, stop_requested, vi, fi, view_ctx, exit_code, runs, calls>>

NextEnum ==
    \/ ResolveField
    \/ LoadAgain

SpecEnum == InitEnum /\ [][NextEnum]_vars

\* C29: enum catalog round trip. The catalog entry appended when an enum is created has
\* the value set build_enum_catalog computes from the persisted definition, and a later
\* field with the same normalized values, in the same or in a later process, reuses the
\* enum.
C29_EnumCatalogRoundTrip ==
    \A i \in DOMAIN calls :
        calls[i].enum_action = "create" =>
            /\ calls[i].value_set = calls[i].persisted
            /\ \A j \in DOMAIN calls :
                (i < j /\ TokenSet(calls[j].values) = TokenSet(calls[i].values))
                => /\ calls[j].enum_action = "reuse"
                   /\ calls[j].enum_name = calls[i].enum_name

\* ------------------------------------------------------------------ assess against apply
\* The two loops are given the same fields, options and initial catalog. The assess loop
\* keeps its catalog in enum_catalog and existing_enum_names and never touches the store;
\* the apply loop's store is yaml_files and its catalog is carried in the call records.

MaxEquivCalls == 2

EquivValues == {<<>>, <<"t","r","u","e",";","f","a","l","s","e">>, <<"m",";","f">>, <<"N","o",","," ","y","e","s">>}

\* the fields of the view; the class already has the attribute 'mark'
EquivFields == {<<"f","l","a","g">>, <<"n","o","t","e">>, <<"m","a","r","k">>}

EquivPresent == {<<"m","a","r","k">>}

Triple(r) == [range |-> r.range, enum_action |-> r.enum_action, enum_name |-> r.enum_name]

InitEquiv ==
    /\ yaml_files = LoadedStore
    /\ NothingRun
    /\ enum_catalog = build_enum_catalog(LoadedStore)
    /\ existing_enum_names = CatalogNames(build_enum_catalog(LoadedStore))
    /\ calls = <<>>

\* both loops come to the next field: run_assess_mode resolves the range and then tests
\* whether the attribute exists (lines 977-1010); main tests first (lines 1913-1919) and
\* calls determine_attribute_range for the fields that are not there (lines 1921-1930)
ResolveBoth ==
    /\ Len(calls) < MaxEquivCalls
    /\ \E a \in {x \in ResolveArgs : calls = <<>> \/ x = calls[1].args},
          name \in EquivFields \ {calls[i].field : i \in DOMAIN calls},
          values \in EquivValues :
        LET field == [field |-> name, values |-> values]
            catalog == IF calls = <<>> THEN build_enum_catalog(LoadedStore)
                       ELSE calls[Len(calls)].apply_catalog
            names == IF calls = <<>> THEN CatalogNames(build_enum_catalog(LoadedStore))
                     ELSE calls[Len(calls)].apply_names
        IN  \E r \in {assess_attribute_range(a, field, to_camel_case(name), ResolveClass,
                                             FallbackFile, enum_catalog, existing_enum_names)},
               d \in {determine_attribute_range(a, field, StringRange, ResolveClass,
                                                FallbackFile, yaml_files, catalog, names)} :
                /\ enum_catalog' = r.enum_catalog
                /\ existing_enum_names' = r.existing_enum_names
                /\ yaml_files' = IF name \in EquivPresent THEN yaml_files ELSE d.yaml_files
                /\ calls' = Append(calls,
                        [args |-> a, field |-> name, values |-> values,
                         present |-> name \in EquivPresent,
                         assess |-> Triple(r),
                         apply |-> Triple(d),
                         apply_catalog |-> IF name \in EquivPresent THEN catalog
                                           ELSE d.enum_catalog,
                         apply_names |-> IF name \in EquivPresent THEN names
                                         ELSE d.existing_enum_names])
    /\ UNCHANGED <<ckptFile, proposalFile, pc, args, checkpoint_root, completed_keys,
                   existing_keys, processed_count, rows_written, pause_counter,
                   stop_requested, vi, fi, view_ctx, exit_code, runs>>

SpecEquiv == InitEquiv /\ [][ResolveBoth]_vars

\* C26: assess resolves as apply does. For every field that produces output, the range,
\* enum action and enum name of the assess row are those determine_attribute_range
\* decides for the field with base range 'string'.
C26_AssessResolvesAsApply ==
    \A i \in DOMAIN calls :
        ~calls[i].present => calls[i].assess = calls[i].apply

\* C27: reused enums are resolvable. Every assess row with enum action 'reuse' names an
\* enum that the loaded store defines or that an earlier row with enum action 'create'
\* and the same normalized value set names.
C27_ReusedEnumIsResolvable ==
    \A j \in DOMAIN calls :
        (~calls[j].present /\ calls[j].assess.enum_action = "reuse")
        => \/ calls[j].assess.enum_name \in CatalogNames(build_enum_catalog(LoadedStore))
           \/ \E i \in 1..(j - 1) :
                /\ ~calls[i].present
                /\ calls[i].assess.enum_action = "create"
                /\ calls[i].assess.enum_name = calls[j].assess.enum_name
                /\ TokenSet(calls[i].values) = TokenSet(calls[j].values)

\* C30: no attribute is proposed twice for one class. No two rows of the proposal CSV
\* have the same target class and the same attribute name.
C30_OneRowPerClassAttribute ==
    \A i, j \in DOMAIN proposalFile.rows :
        (/\ ViewContext(LoadedStore, proposalFile.rows[i].view_name).target_class_name
              = ViewContext(LoadedStore, proposalFile.rows[j].view_name).target_class_name
         /\ proposalFile.rows[i].attribute_name = proposalFile.rows[j].attribute_name)
        => i = j
====
